---- MODULE Spec2Model ----
(***************************************************************************)
(* tf_documenter: classification of Terraform resources                    *)
(* (terraform_parser.py, utils.py) and synthesis of the conceptual and the *)
(* networking diagram (diagram_generator.py).                              *)
(*                                                                         *)
(* Python strings on which the code does substring, suffix or case work    *)
(* (resource names, reference strings) are sequences of one-character      *)
(* strings.  Strings that the code only compares or looks up (provider,    *)
(* resource type, category, dictionary keys, node classes, exception        *)
(* texts) are TLA+ strings.                                                *)
(***************************************************************************)
EXTENDS Integers, Sequences, FiniteSets, TLC

VARIABLES provider, files, pc, parsed_data, warnings, conceptual, networking, report

vars == <<provider, files, pc, parsed_data, warnings, conceptual, networking, report>>

(***************************************************************************)
(* Python values and string operations                                     *)
(***************************************************************************)

\* str.lower() on one character
LowerChar(c) ==
   CASE c = "A" -> "a" [] c = "B" -> "b" [] c = "C" -> "c" [] c = "D" -> "d"
     [] c = "E" -> "e" [] c = "F" -> "f" [] c = "G" -> "g" [] c = "H" -> "h"
     [] c = "I" -> "i" [] c = "J" -> "j" [] c = "K" -> "k" [] c = "L" -> "l"
     [] c = "M" -> "m" [] c = "N" -> "n" [] c = "O" -> "o" [] c = "P" -> "p"
     [] c = "Q" -> "q" [] c = "R" -> "r" [] c = "S" -> "s" [] c = "T" -> "t"
     [] c = "U" -> "u" [] c = "V" -> "v" [] c = "W" -> "w" [] c = "X" -> "x"
     [] c = "Y" -> "y" [] c = "Z" -> "z" [] OTHER -> c

\* str.lower()
Lower(s) ==
   [i \in 1..Len(s) |-> LowerChar(s[i])]

\* needle in hay, both str
Contains(needle, hay) ==
   \E i \in 0..(Len(hay) - Len(needle)) : SubSeq(hay, i + 1, i + Len(needle)) = needle

\* hay.endswith(suffix), both str
EndsWith(hay, suffix) ==
   /\ Len(suffix) <= Len(hay)
   /\ SubSeq(hay, Len(hay) - Len(suffix) + 1, Len(hay)) = suffix

\* A Python value: t is its type; s the characters of a str; items the
\* elements of a list; kv the key/value pairs of a dict, in insertion order.
PStr(s) ==
   [t |-> "str", s |-> s, items |-> <<>>, kv |-> <<>>]

PInt ==
   [t |-> "int", s |-> <<>>, items |-> <<>>, kv |-> <<>>]

PNone ==
   [t |-> "None", s |-> <<>>, items |-> <<>>, kv |-> <<>>]

PList(items) ==
   [t |-> "list", s |-> <<>>, items |-> items, kv |-> <<>>]

PDict(kv) ==
   [t |-> "dict", s |-> <<>>, items |-> <<>>, kv |-> kv]

KV(k, v) ==
   [k |-> k, v |-> v]

HasKey(kv, key) ==
   \E i \in 1..Len(kv) : kv[i].k = key

\* dict.get(key, default) on the pairs of a dict
DictGet(kv, key, default) ==
   IF HasKey(kv, key)
   THEN kv[CHOOSE i \in 1..Len(kv) : kv[i].k = key].v
   ELSE default

NoError == ""

\* The exception raised by v[0], NoError when it raises none.
Index0Err(v) ==
   CASE v.t = "list" -> IF v.items = <<>> THEN "list index out of range" ELSE NoError
     [] v.t = "str" -> IF v.s = <<>> THEN "string index out of range" ELSE NoError
     [] v.t = "int" -> "'int' object is not subscriptable"
     [] OTHER -> "0"

\* v[0] when it raises nothing (a str yields its first character).
Index0(v) ==
   IF v.t = "list" THEN v.items[1] ELSE PStr(SubSeq(v.s, 1, 1))

\* The first exception of a sequence of evaluation steps, in program order.
RECURSIVE FirstError(_)
FirstError(errs) ==
   IF errs = <<>> THEN NoError
   ELSE IF Head(errs) # NoError THEN Head(errs)
   ELSE FirstError(Tail(errs))

(***************************************************************************)
(* utils.py: the taxonomy table                                            *)
(***************************************************************************)

RESOURCE_MAP_aws ==
   <<
      [category |-> "vpcs", types |-> <<"aws_vpc">>],
      [category |-> "subnets", types |-> <<"aws_subnet">>],
      [category |-> "route_tables", types |-> <<"aws_route_table", "aws_route">>],
      [category |-> "internet_gateways", types |-> <<"aws_internet_gateway">>],
      [category |-> "nat_gateways", types |-> <<"aws_nat_gateway">>],
      [category |-> "vpn_gateways", types |-> <<"aws_vpn_gateway">>],
      [category |-> "peering_connections", types |-> <<"aws_vpc_peering_connection">>],
      [category |-> "endpoints", types |-> <<"aws_vpc_endpoint">>],
      [category |-> "alb", types |-> <<"aws_lb", "aws_alb">>],
      [category |-> "nlb", types |-> <<"aws_network_load_balancer">>],
      [category |-> "target_groups", types |-> <<"aws_lb_target_group", "aws_alb_target_group">>],
      [category |-> "listeners", types |-> <<"aws_lb_listener", "aws_alb_listener">>],
      [category |-> "route53", types |-> <<"aws_route53_zone", "aws_route53_record">>],
      [category |-> "cloudfront", types |-> <<"aws_cloudfront_distribution">>],
      [category |-> "apigateway", types |-> <<"aws_api_gateway_rest_api", "aws_api_gateway_v2_api">>],
      [category |-> "transit_gateways", types |-> <<"aws_transit_gateway">>],
      [category |-> "instances", types |-> <<"aws_instance">>],
      [category |-> "asg", types |-> <<"aws_autoscaling_group">>],
      [category |-> "launch_templates", types |-> <<"aws_launch_template">>],
      [category |-> "eks", types |-> <<"aws_eks_cluster", "aws_eks_node_group", "aws_eks_fargate_profile">>],
      [category |-> "ecs", types |-> <<"aws_ecs_cluster", "aws_ecs_service", "aws_ecs_task_definition">>],
      [category |-> "ecr", types |-> <<"aws_ecr_repository">>],
      [category |-> "lambda", types |-> <<"aws_lambda_function">>],
      [category |-> "sqs", types |-> <<"aws_sqs_queue">>],
      [category |-> "sns", types |-> <<"aws_sns_topic">>],
      [category |-> "eventbridge", types |-> <<"aws_cloudwatch_event_rule", "aws_cloudwatch_event_target">>],
      [category |-> "s3", types |-> <<"aws_s3_bucket", "aws_s3_bucket_policy">>],
      [category |-> "ebs", types |-> <<"aws_ebs_volume">>],
      [category |-> "efs", types |-> <<"aws_efs_file_system">>],
      [category |-> "glacier", types |-> <<"aws_glacier_vault">>],
      [category |-> "rds", types |-> <<"aws_db_instance", "aws_db_subnet_group">>],
      [category |-> "aurora", types |-> <<"aws_rds_cluster">>],
      [category |-> "dynamodb", types |-> <<"aws_dynamodb_table">>],
      [category |-> "elasticache", types |-> <<"aws_elasticache_cluster", "aws_elasticache_subnet_group">>],
      [category |-> "neptune", types |-> <<"aws_neptune_cluster">>],
      [category |-> "documentdb", types |-> <<"aws_docdb_cluster">>],
      [category |-> "iam_roles", types |-> <<"aws_iam_role">>],
      [category |-> "iam_policies", types |-> <<"aws_iam_policy", "aws_iam_role_policy_attachment">>],
      [category |-> "iam_users", types |-> <<"aws_iam_user">>],
      [category |-> "security_groups", types |-> <<"aws_security_group", "aws_security_group_rule">>],
      [category |-> "nacl", types |-> <<"aws_network_acl", "aws_network_acl_rule">>],
      [category |-> "kms", types |-> <<"aws_kms_key">>],
      [category |-> "acm", types |-> <<"aws_acm_certificate">>],
      [category |-> "secretsmanager", types |-> <<"aws_secretsmanager_secret">>],
      [category |-> "waf", types |-> <<"aws_wafv2_web_acl">>],
      [category |-> "redshift", types |-> <<"aws_redshift_cluster">>],
      [category |-> "emr", types |-> <<"aws_emr_cluster">>],
      [category |-> "glue", types |-> <<"aws_glue_catalog_database", "aws_glue_job">>],
      [category |-> "kinesis", types |-> <<"aws_kinesis_stream">>],
      [category |-> "athena", types |-> <<"aws_athena_database", "aws_athena_workgroup">>],
      [category |-> "cloudwatch", types |-> <<"aws_cloudwatch_metric_alarm", "aws_cloudwatch_dashboard">>],
      [category |-> "cloudtrail", types |-> <<"aws_cloudtrail">>],
      [category |-> "config", types |-> <<"aws_config_config_rule">>]
   >>

RESOURCE_MAP_azurerm ==
   <<
      [category |-> "vnets", types |-> <<"azurerm_virtual_network">>],
      [category |-> "subnets", types |-> <<"azurerm_subnet">>],
      [category |-> "route_tables", types |-> <<"azurerm_route_table">>],
      [category |-> "nat_gateways", types |-> <<"azurerm_nat_gateway">>],
      [category |-> "vpn_gateways", types |-> <<"azurerm_virtual_network_gateway">>],
      [category |-> "app_gateway", types |-> <<"azurerm_application_gateway">>],
      [category |-> "load_balancer", types |-> <<"azurerm_lb", "azurerm_lb_backend_address_pool">>],
      [category |-> "dns", types |-> <<"azurerm_dns_zone", "azurerm_private_dns_zone">>],
      [category |-> "firewall", types |-> <<"azurerm_firewall">>],
      [category |-> "public_ip", types |-> <<"azurerm_public_ip">>],
      [category |-> "network_interfaces", types |-> <<"azurerm_network_interface">>],
      [category |-> "vms", types |-> <<"azurerm_virtual_machine", "azurerm_linux_virtual_machine", "azurerm_windows_virtual_machine">>],
      [category |-> "vmss", types |-> <<"azurerm_virtual_machine_scale_set">>],
      [category |-> "aks", types |-> <<"azurerm_kubernetes_cluster">>],
      [category |-> "acr", types |-> <<"azurerm_container_registry">>],
      [category |-> "aci", types |-> <<"azurerm_container_group">>],
      [category |-> "functions", types |-> <<"azurerm_function_app", "azurerm_windows_function_app", "azurerm_linux_function_app">>],
      [category |-> "eventgrid", types |-> <<"azurerm_eventgrid_topic">>],
      [category |-> "servicebus", types |-> <<"azurerm_servicebus_namespace">>],
      [category |-> "logic_apps", types |-> <<"azurerm_logic_app_workflow">>],
      [category |-> "storage_accounts", types |-> <<"azurerm_storage_account">>],
      [category |-> "storage_containers", types |-> <<"azurerm_storage_container">>],
      [category |-> "managed_disks", types |-> <<"azurerm_managed_disk">>],
      [category |-> "sql_db", types |-> <<"azurerm_sql_database", "azurerm_mssql_database">>],
      [category |-> "sql_server", types |-> <<"azurerm_sql_server", "azurerm_mssql_server">>],
      [category |-> "cosmosdb", types |-> <<"azurerm_cosmosdb_account">>],
      [category |-> "redis", types |-> <<"azurerm_redis_cache">>],
      [category |-> "postgresql", types |-> <<"azurerm_postgresql_server">>],
      [category |-> "mysql", types |-> <<"azurerm_mysql_server">>],
      [category |-> "key_vault", types |-> <<"azurerm_key_vault", "azurerm_key_vault_secret">>],
      [category |-> "nsgs", types |-> <<"azurerm_network_security_group", "azurerm_network_security_rule">>],
      [category |-> "managed_identity", types |-> <<"azurerm_user_assigned_identity">>],
      [category |-> "monitor", types |-> <<"azurerm_monitor_metric_alert", "azurerm_log_analytics_workspace">>],
      [category |-> "machine_learning", types |-> <<"azurerm_machine_learning_workspace">>],
      [category |-> "cognitive_services", types |-> <<"azurerm_cognitive_account">>]
   >>

RESOURCE_MAP_google ==
   <<
      [category |-> "networks", types |-> <<"google_compute_network">>],
      [category |-> "subnets", types |-> <<"google_compute_subnetwork">>],
      [category |-> "routes", types |-> <<"google_compute_route">>],
      [category |-> "routers", types |-> <<"google_compute_router">>],
      [category |-> "nat", types |-> <<"google_compute_router_nat">>],
      [category |-> "vpn", types |-> <<"google_compute_vpn_gateway">>],
      [category |-> "firewall", types |-> <<"google_compute_firewall">>],
      [category |-> "load_balancing", types |-> <<"google_compute_forwarding_rule", "google_compute_global_forwarding_rule", "google_compute_backend_service">>],
      [category |-> "dns", types |-> <<"google_dns_managed_zone", "google_dns_record_set">>],
      [category |-> "cloud_armor", types |-> <<"google_compute_security_policy">>],
      [category |-> "instances", types |-> <<"google_compute_instance", "google_workbench_instance">>],
      [category |-> "instance_groups", types |-> <<"google_compute_instance_group_manager">>],
      [category |-> "instance_templates", types |-> <<"google_compute_instance_template">>],
      [category |-> "gke", types |-> <<"google_container_cluster", "google_container_node_pool">>],
      [category |-> "artifact_registry", types |-> <<"google_artifact_registry_repository">>],
      [category |-> "functions", types |-> <<"google_cloudfunctions_function", "google_cloudfunctions2_function">>],
      [category |-> "cloud_run", types |-> <<"google_cloud_run_v2_service">>],
      [category |-> "pubsub", types |-> <<"google_pubsub_topic", "google_pubsub_subscription">>],
      [category |-> "workflows", types |-> <<"google_workflows_workflow">>],
      [category |-> "storage_buckets", types |-> <<"google_storage_bucket", "google_storage_bucket_iam_binding">>],
      [category |-> "disks", types |-> <<"google_compute_disk">>],
      [category |-> "filestore", types |-> <<"google_filestore_instance">>],
      [category |-> "sql", types |-> <<"google_sql_database_instance">>],
      [category |-> "spanner", types |-> <<"google_spanner_instance">>],
      [category |-> "bigtable", types |-> <<"google_bigtable_instance">>],
      [category |-> "firestore", types |-> <<"google_firestore_database", "google_firestore_document">>],
      [category |-> "memorystore", types |-> <<"google_redis_instance">>],
      [category |-> "iam_roles", types |-> <<"google_service_account", "google_project_iam_binding", "google_project_iam_member">>],
      [category |-> "kms", types |-> <<"google_kms_key_ring", "google_kms_crypto_key">>],
      [category |-> "secret_manager", types |-> <<"google_secret_manager_secret", "google_secret_manager_secret_version">>],
      [category |-> "bigquery", types |-> <<"google_bigquery_dataset", "google_bigquery_table">>],
      [category |-> "dataproc", types |-> <<"google_dataproc_cluster">>],
      [category |-> "dataflow", types |-> <<"google_dataflow_job">>],
      [category |-> "composer", types |-> <<"google_composer_environment">>],
      [category |-> "vertex_ai", types |-> <<"google_vertex_ai_dataset", "google_vertex_ai_endpoint">>],
      [category |-> "notebooks", types |-> <<"google_notebooks_instance">>]
   >>

\* RESOURCE_MAP.get(provider, {}): the table of the provider, in the
\* insertion order of the dict; empty for a provider the table does not know.
RESOURCE_MAP_get(p) ==
   CASE p = "aws" -> RESOURCE_MAP_aws
     [] p = "azurerm" -> RESOURCE_MAP_azurerm
     [] p = "google" -> RESOURCE_MAP_google
     [] OTHER -> <<>>

\* Membership in a sequence.
InSeq(x, seq) ==
   \E i \in 1..Len(seq) : seq[i] = x

(***************************************************************************)
(* terraform_parser.py: parse_terraform_directory                          *)
(***************************************************************************)

None == "None"

\* Mutant of InitialCategories: the loop stops one entry short of the table.
InitialCategories_ShortByOne(p) ==
   {RESOURCE_MAP_get(p)[i].category : i \in 1..(Len(RESOURCE_MAP_get(p)) - 1)}

\* The keys parsed_data["resources"] holds after the loop that builds the
\* reverse map: a category is initialised once per declared type of it.
InitialCategories(p) ==
   {RESOURCE_MAP_get(p)[i].category :
       i \in {j \in 1..Len(RESOURCE_MAP_get(p)) : RESOURCE_MAP_get(p)[j].types # <<>>}}

\* Mutant of ReverseLookup: every type of the table is looked up as the
\* table's first category.
ReverseLookup_FirstCategory(p, res_type) ==
   LET table == RESOURCE_MAP_get(p)
   IN IF \A i \in 1..Len(table) : ~InSeq(res_type, table[i].types) THEN None
      ELSE table[1].category

\* reverse_resource_map.get(res_type): a later entry of the table overwrites
\* an earlier one for the same type.
ReverseLookup(p, res_type) ==
   LET table == RESOURCE_MAP_get(p)
       hits == {i \in 1..Len(table) : InSeq(res_type, table[i].types)}
   IN IF hits = {} THEN None
      ELSE table[CHOOSE i \in hits : \A j \in hits : j <= i].category

\* The record appended for one declared resource.
ClassifiedResource(r) ==
   [type |-> r.type, name |-> r.name, config |-> r.config]

\* Mutant of AppendResource: the record is inserted at the front.
AppendResource_AtFront(list, r) ==
   <<ClassifiedResource(r)>> \o list

\* The append of one matched resource to its category list.
AppendResource(list, r) ==
   Append(list, ClassifiedResource(r))

\* Mutant of ExtractResources: the loop breaks at the first resource whose
\* type is not in the table.
RECURSIVE ExtractResources_BreakOnUnknown(_, _, _)
ExtractResources_BreakOnUnknown(resources, blocks, p) ==
   IF blocks = <<>> THEN resources
   ELSE LET r == Head(blocks)
            category == ReverseLookup(p, r.type)
        IN IF category = None THEN resources
           ELSE ExtractResources_BreakOnUnknown(
                   [resources EXCEPT ![category] = AppendResource(@, r)], Tail(blocks), p)

\* The "Extract resources" loop over the resource blocks of one file.
RECURSIVE ExtractResources(_, _, _)
ExtractResources(resources, blocks, p) ==
   IF blocks = <<>> THEN resources
   ELSE LET r == Head(blocks)
            category == ReverseLookup(p, r.type)
        IN ExtractResources(
              IF category # None
              THEN [resources EXCEPT ![category] = AppendResource(@, r)]
              ELSE resources,
              Tail(blocks), p)

\* 'N/A'
Str_NA == <<"N", "/", "A">>

\* The record appended for one variable block {var_name: var_details}: the
\* first element of the description list, and of a default that is a list,
\* 'N/A' for an empty or absent one, a default of another type as it is.
ParsedVariable(v) ==
   LET desc_list == DictGet(v.details, "description", PList(<<>>))
       default_value == DictGet(v.details, "default", PNone)
   IN [name |-> v.name,
       description |-> IF desc_list.items # <<>> THEN desc_list.items[1] ELSE PStr(Str_NA),
       default |-> IF default_value.t = "list"
                   THEN (IF default_value.items # <<>> THEN default_value.items[1]
                         ELSE PStr(Str_NA))
                   ELSE IF default_value.t = "None" THEN PStr(Str_NA)
                   ELSE default_value]

\* Mutant of ExtractVariables: only the first variable block of a file is
\* extracted.
ExtractVariables_FirstOnly(blocks) ==
   [i \in 1..(IF blocks = <<>> THEN 0 ELSE 1) |-> ParsedVariable(blocks[i])]

\* The "Extract variables" loop over the variable blocks of one file.
ExtractVariables(blocks) ==
   [i \in 1..Len(blocks) |-> ParsedVariable(blocks[i])]

\* The "Extract modules" loop over the module blocks of one file: the records
\* appended, and the exception of mod_details.get('source', ['N/A'])[0] that
\* ended the loop, NoError when it ran to its end.
RECURSIVE ExtractModules(_)
ExtractModules(blocks) ==
   IF blocks = <<>> THEN [modules |-> <<>>, error |-> NoError]
   ELSE LET m == Head(blocks)
            source == DictGet(m.details, "source", PList(<<PStr(Str_NA)>>))
        IN IF Index0Err(source) # NoError
           THEN [modules |-> <<>>, error |-> Index0Err(source)]
           ELSE [modules |-> <<[name |-> m.name, source |-> Index0(source)]>>
                                \o ExtractModules(Tail(blocks)).modules,
                 error |-> ExtractModules(Tail(blocks)).error]

\* The loop over all_tf_files.  A file that cannot be opened or parsed
\* raises inside the try block: a warning is printed and the loop goes on.
\* An exception of a later loop leaves what the file had appended before it.
RECURSIVE ParseFiles(_, _, _)
ParseFiles(acc, fs, p) ==
   IF fs = <<>> THEN acc
   ELSE LET f == Head(fs)
        IN ParseFiles(
              IF f.ok
              THEN [acc EXCEPT !.resources = ExtractResources(@, f.resource, p),
                               !.variables = @ \o ExtractVariables(f.variable),
                               !.modules = @ \o ExtractModules(f.module).modules,
                               !.warnings = IF ExtractModules(f.module).error = NoError
                                            THEN @ ELSE @ + 1]
              ELSE [acc EXCEPT !.warnings = @ + 1],
              Tail(fs), p)

\* parse_terraform_directory(directory, provider), with the number of
\* warnings it printed.
ParseResult(fs, p) ==
   ParseFiles([resources |-> [c \in InitialCategories(p) |-> <<>>],
               variables |-> <<>>, modules |-> <<>>, warnings |-> 0], fs, p)

(***************************************************************************)
(* diagram_generator.py: the diagram under construction                    *)
(*                                                                         *)
(* A diagram is what the code hands to the diagrams library: clusters      *)
(* (each inside its parent, 0 for the diagram itself), nodes (each inside  *)
(* the cluster that was open when it was created) and edges between nodes. *)
(* Clusters and nodes are numbered in the order of their creation.  A      *)
(* label is a fixed text followed by a name, as the f-strings format it.   *)
(***************************************************************************)

Label(text, name) ==
   [text |-> text, name |-> name]

EmptyDiagram ==
   [clusters |-> <<>>, nodes |-> <<>>, edges |-> <<>>]

\* with Cluster(label): opened inside cluster parent
AddCluster(g, label, parent) ==
   [g EXCEPT !.clusters = Append(@, [label |-> label, parent |-> parent])]

\* Class(label) inside cluster c
AddNode(g, cls, label, c) ==
   [g EXCEPT !.nodes = Append(@, [cls |-> cls, label |-> label, cluster |-> c])]

\* [Class(r["name"]) for r in list] inside cluster c
AddNodes(g, cls, list, c) ==
   [g EXCEPT !.nodes = @ \o [i \in 1..Len(list) |->
                                [cls |-> cls, label |-> Label("", list[i].name), cluster |-> c]]]

\* The numbers of the n nodes created last.
LastNodes(g, n) ==
   [i \in 1..n |-> Len(g.nodes) - n + i]

\* src >> dst
Connect(g, src, dst) ==
   [g EXCEPT !.edges = Append(@, [src |-> src, dst |-> dst])]

\* src >> [dsts]: one edge to each node of the list
ConnectAll(g, src, dsts) ==
   [g EXCEPT !.edges = @ \o [i \in 1..Len(dsts) |-> [src |-> src, dst |-> dsts[i]]]]

\* resources.get(category, [])
CategoryGet(resources, category) ==
   IF category \in DOMAIN resources THEN resources[category] ELSE <<>>

\* The diagram of the except branch: Blank(f"Error: {e}") alone.
ErrorDiagram(e) ==
   AddNode(EmptyDiagram, "Blank", Label("Error: " \o e, <<>>), 0)

\* provider.upper()
ProviderUpper(p) ==
   CASE p = "aws" -> "AWS"
     [] p = "azurerm" -> "AZURERM"
     [] p = "google" -> "GOOGLE"
     [] p = "ibm" -> "IBM"
     [] OTHER -> p

\* The else branch: Blank(f"Diagrams for {provider.upper()} not implemented.")
NotImplementedDiagram(p) ==
   AddNode(EmptyDiagram, "Blank",
           Label("Diagrams for " \o ProviderUpper(p) \o " not implemented.", <<>>), 0)

(***************************************************************************)
(* Reference expressions of create_networking_diagram                      *)
(***************************************************************************)

Str_public == <<"p", "u", "b", "l", "i", "c">>
Str_private == <<"p", "r", "i", "v", "a", "t", "e">>

\* r.get("config", {}).get(key, [""])
ConfigGet(r, key) ==
   DictGet(r.config, key, PList(<<PStr(<<>>)>>))

\* The exception of "name in v", NoError when there is none.
InErr(v) ==
   IF v.t = "int" THEN "argument of type 'int' is not iterable" ELSE NoError

\* name in v: substring of a str, element of a list.  (A dict in a
\* reference position is not among the modelled inputs.)
InVal(name, v) ==
   CASE v.t = "str" -> Contains(name, v.s)
     [] v.t = "list" -> InSeq(PStr(name), v.items)
     [] OTHER -> FALSE

\* The exception of: name in r.get("config", {}).get(key, [""])[0]
NameInRefErr(name, r, key) ==
   LET v == ConfigGet(r, key)
   IN IF Index0Err(v) # NoError THEN Index0Err(v) ELSE InErr(Index0(v))

\* Mutant of NameInRef: the name is compared with the reference by ==.
NameInRef_Equal(name, r, key) ==
   LET v == ConfigGet(r, key)
   IN /\ NameInRefErr(name, r, key) = NoError
      /\ Index0(v) = PStr(name)

\* Mutant of NameInRef: both strings are lower-cased before the test.
NameInRef_IgnoreCase(name, r, key) ==
   LET v == ConfigGet(r, key)
   IN /\ NameInRefErr(name, r, key) = NoError
      /\ Contains(Lower(name), Lower(Index0(v).s))

\* name in r.get("config", {}).get(key, [""])[0]
NameInRef(name, r, key) ==
   LET v == ConfigGet(r, key)
   IN /\ NameInRefErr(name, r, key) = NoError
      /\ InVal(name, Index0(v))

\* The first exception of [r for r in list if name in r...get(key, [""])[0]]
WhereNameInRefErr(list, name, key) ==
   FirstError([i \in 1..Len(list) |-> NameInRefErr(name, list[i], key)])

\* [r for r in list if name in r.get("config", {}).get(key, [""])[0]]
WhereNameInRef(list, name, key) ==
   SelectSeq(list, LAMBDA r : NameInRef(name, r, key))

\* next((r for r in list if name in r...get(key, [""])[0]), None): the
\* generator stops at the first match, 0 stands for None.
NextNameInRef(list, name, key) ==
   LET hits == {i \in 1..Len(list) : NameInRef(name, list[i], key)}
   IN IF hits = {} THEN 0 ELSE CHOOSE i \in hits : \A j \in hits : i <= j

\* Its exception: that of the first element that raises before any matches.
NextNameInRefErr(list, name, key) ==
   LET m == NextNameInRef(list, name, key)
       n == IF m = 0 THEN Len(list) ELSE m - 1
   IN FirstError([i \in 1..n |-> NameInRefErr(name, list[i], key)])

\* Mutant of NextNamed: the last match is taken instead of the first.
NextNamed_Last(list, word) ==
   LET hits == {i \in 1..Len(list) : Contains(word, Lower(list[i].name))}
   IN IF hits = {} THEN 0 ELSE CHOOSE i \in hits : \A j \in hits : j <= i

\* next((rt for rt in list if word in rt['name'].lower()), None), 0 for None
NextNamed(list, word) ==
   LET hits == {i \in 1..Len(list) : Contains(word, Lower(list[i].name))}
   IN IF hits = {} THEN 0 ELSE CHOOSE i \in hits : \A j \in hits : i <= j

\* [s for s in list if word in s['name'].lower()]
WhereNamed(list, word) ==
   SelectSeq(list, LAMBDA s : Contains(word, Lower(s.name)))

(***************************************************************************)
(* create_networking_diagram, provider == "aws"                            *)
(***************************************************************************)

\* The loop over the public subnets of one VPC: a cluster per subnet with
\* its EC2 nodes and, when a NAT gateway refers to the subnet, its node.
\* st is [g, nat_node]; nat_node is 0 for None.
RECURSIVE AwsPublicSubnets(_, _, _, _)
AwsPublicSubnets(st, subs, tier, resources) ==
   IF subs = <<>> THEN st
   ELSE LET subnet_data == Head(subs)
            instances == CategoryGet(resources, "instances")
            nats == CategoryGet(resources, "nat_gateways")
            g1 == AddCluster(st.g, Label("Subnet: ", subnet_data.name), tier)
            c == Len(g1.clusters)
            g2 == AddNodes(g1, "EC2", WhereNameInRef(instances, subnet_data.name, "subnet_id"), c)
            nat_data == NextNameInRef(nats, subnet_data.name, "subnet_id")
            g3 == IF nat_data # 0
                  THEN AddNode(g2, "NATGateway", Label("", nats[nat_data].name), c)
                  ELSE g2
        IN AwsPublicSubnets(
              [g |-> g3, nat_node |-> IF nat_data # 0 THEN Len(g3.nodes) ELSE st.nat_node],
              Tail(subs), tier, resources)

\* The loop over the private subnets of one VPC.
RECURSIVE AwsPrivateSubnets(_, _, _, _)
AwsPrivateSubnets(g, subs, tier, resources) ==
   IF subs = <<>> THEN g
   ELSE LET subnet_data == Head(subs)
            instances == CategoryGet(resources, "instances")
            g1 == AddCluster(g, Label("Subnet: ", subnet_data.name), tier)
            g2 == AddNodes(g1, "EC2", WhereNameInRef(instances, subnet_data.name, "subnet_id"),
                           Len(g1.clusters))
        IN AwsPrivateSubnets(g2, Tail(subs), tier, resources)

\* vpc_subnets of one VPC
VpcSubnets(resources, vpc_name) ==
   WhereNameInRef(CategoryGet(resources, "subnets"), vpc_name, "vpc_id")

\* Mutant of PublicSubnets: the name is not lower-cased before the test.
PublicSubnets_CaseSensitive(vpc_subnets) ==
   SelectSeq(vpc_subnets, LAMBDA s : Contains(Str_public, s.name))

\* The subnets of one VPC that get a cluster in the public tier
PublicSubnets(vpc_subnets) ==
   WhereNamed(vpc_subnets, Str_public)

\* The subnets of one VPC that get a cluster in the private tier
PrivateSubnets(vpc_subnets) ==
   WhereNamed(vpc_subnets, Str_private)

\* Mutant of AwsStructuralEdges: the egress edge is nested in the test for
\* the private route table.
AwsStructuralEdges_EgressNested(g, igw_node, public_rt_node, private_rt_node, nat_node) ==
   LET g1 == IF igw_node # 0 /\ public_rt_node # 0
             THEN Connect(g, igw_node, public_rt_node) ELSE g
       g2 == IF private_rt_node # 0 /\ nat_node # 0
             THEN Connect(g1, private_rt_node, nat_node) ELSE g1
   IN IF private_rt_node # 0 /\ nat_node # 0 /\ igw_node # 0
      THEN Connect(g2, nat_node, igw_node) ELSE g2

\* The structural edges of one VPC, drawn after all its nodes exist.
AwsStructuralEdges(g, igw_node, public_rt_node, private_rt_node, nat_node) ==
   LET g1 == IF igw_node # 0 /\ public_rt_node # 0
             THEN Connect(g, igw_node, public_rt_node) ELSE g
       g2 == IF private_rt_node # 0 /\ nat_node # 0
             THEN Connect(g1, private_rt_node, nat_node) ELSE g1
   IN IF nat_node # 0 /\ igw_node # 0 THEN Connect(g2, nat_node, igw_node) ELSE g2

\* The body of "for vpc in vpcs" for one VPC.
AwsVpc(g, vpc, igw_node, resources) ==
   LET vpc_name == vpc.name
       g1 == AddCluster(g, Label("VPC: ", vpc_name), 0)
       vpc_cluster == Len(g1.clusters)
       vpc_subnets == VpcSubnets(resources, vpc_name)
       vpc_rts == WhereNameInRef(CategoryGet(resources, "route_tables"), vpc_name, "vpc_id")
       vpc_nacls == WhereNameInRef(CategoryGet(resources, "nacl"), vpc_name, "vpc_id")
       public_rt_data == NextNamed(vpc_rts, Str_public)
       private_rt_data == NextNamed(vpc_rts, Str_private)
       g2 == IF public_rt_data # 0
             THEN AddNode(g1, "RouteTable", Label("", vpc_rts[public_rt_data].name), vpc_cluster)
             ELSE g1
       public_rt_node == IF public_rt_data # 0 THEN Len(g2.nodes) ELSE 0
       g3 == IF private_rt_data # 0
             THEN AddNode(g2, "RouteTable", Label("", vpc_rts[private_rt_data].name), vpc_cluster)
             ELSE g2
       private_rt_node == IF private_rt_data # 0 THEN Len(g3.nodes) ELSE 0
       g4 == IF vpc_nacls # <<>>
             THEN AddNode(g3, "WAF", Label("", vpc_nacls[1].name), vpc_cluster)
             ELSE g3
       g5 == AddCluster(g4, Label("Public Subnets", <<>>), vpc_cluster)
       pub == AwsPublicSubnets([g |-> g5, nat_node |-> 0], PublicSubnets(vpc_subnets),
                               Len(g5.clusters), resources)
       g6 == AddCluster(pub.g, Label("Private Subnets", <<>>), vpc_cluster)
       g7 == AwsPrivateSubnets(g6, PrivateSubnets(vpc_subnets), Len(g6.clusters), resources)
   IN AwsStructuralEdges(g7, igw_node, public_rt_node, private_rt_node, pub.nat_node)

RECURSIVE AwsVpcs(_, _, _, _)
AwsVpcs(g, vpcs, igw_node, resources) ==
   IF vpcs = <<>> THEN g
   ELSE AwsVpcs(AwsVpc(g, Head(vpcs), igw_node, resources), Tail(vpcs), igw_node, resources)

\* The first exception raised inside the body of "for vpc in vpcs" for one
\* VPC, in the order the body evaluates its comprehensions.
AwsVpcErr(vpc, resources) ==
   LET instances == CategoryGet(resources, "instances")
       nats == CategoryGet(resources, "nat_gateways")
       vpc_subnets == VpcSubnets(resources, vpc.name)
       pubs == PublicSubnets(vpc_subnets)
       privs == PrivateSubnets(vpc_subnets)
   IN FirstError(
         << WhereNameInRefErr(CategoryGet(resources, "subnets"), vpc.name, "vpc_id"),
            WhereNameInRefErr(CategoryGet(resources, "route_tables"), vpc.name, "vpc_id"),
            WhereNameInRefErr(CategoryGet(resources, "nacl"), vpc.name, "vpc_id"),
            FirstError([i \in 1..Len(pubs) |->
               FirstError(<< WhereNameInRefErr(instances, pubs[i].name, "subnet_id"),
                             NextNameInRefErr(nats, pubs[i].name, "subnet_id") >>)]),
            FirstError([i \in 1..Len(privs) |->
               WhereNameInRefErr(instances, privs[i].name, "subnet_id")]) >>)

\* Mutant of AwsNetworkingErr: the references of the subnets are
\* subscripted before the test for an empty list of VPCs.
AwsNetworkingErr_BeforeTest(resources) ==
   LET subnets == CategoryGet(resources, "subnets")
       vpcs == CategoryGet(resources, "vpcs")
   IN FirstError(<< FirstError([i \in 1..Len(subnets) |-> Index0Err(ConfigGet(subnets[i], "vpc_id"))]),
                    FirstError([i \in 1..Len(vpcs) |-> AwsVpcErr(vpcs[i], resources)]) >>)

\* The first exception of the aws branch, NoError when it completes.
AwsNetworkingErr(resources) ==
   LET vpcs == CategoryGet(resources, "vpcs")
   IN FirstError([i \in 1..Len(vpcs) |-> AwsVpcErr(vpcs[i], resources)])

\* The aws branch when no exception is raised.
AwsNetworking(resources) ==
   LET vpcs == CategoryGet(resources, "vpcs")
       igws == CategoryGet(resources, "internet_gateways")
   IN IF vpcs = <<>>
      THEN AddNode(EmptyDiagram, "VPC", Label("No VPC found.", <<>>), 0)
      ELSE LET g1 == IF igws # <<>>
                     THEN AddNode(EmptyDiagram, "InternetGateway", Label("", igws[1].name), 0)
                     ELSE EmptyDiagram
           IN AwsVpcs(g1, vpcs, IF igws # <<>> THEN 1 ELSE 0, resources)

(***************************************************************************)
(* create_networking_diagram, provider == "google"                         *)
(***************************************************************************)

\* The exception of v.endswith(suffix), NoError when there is none.
EndsWithErr(v) ==
   IF v.t = "str" THEN NoError
   ELSE "'" \o v.t \o "' object has no attribute 'endswith'"

\* The exception of: r.get("config",{}).get(key, [""])[0].endswith(name)
RefEndsWithErr(r, key) ==
   LET v == ConfigGet(r, key)
   IN IF Index0Err(v) # NoError THEN Index0Err(v) ELSE EndsWithErr(Index0(v))

\* r.get("config",{}).get(key, [""])[0].endswith(name)
RefEndsWith(r, key, name) ==
   /\ RefEndsWithErr(r, key) = NoError
   /\ EndsWith(Index0(ConfigGet(r, key)).s, name)

\* i.get("config",{}).get("network_interface",[{}])[0]
NetworkInterface0(i) ==
   Index0(DictGet(i.config, "network_interface", PList(<<PDict(<<>>)>>)))

\* The exception of:
\* i.get("config",{}).get("network_interface",[{}])[0].get("subnetwork","").endswith(name)
SubnetworkEndsWithErr(i) ==
   LET ni == DictGet(i.config, "network_interface", PList(<<PDict(<<>>)>>))
   IN IF Index0Err(ni) # NoError THEN Index0Err(ni)
      ELSE IF Index0(ni).t # "dict"
      THEN "'" \o Index0(ni).t \o "' object has no attribute 'get'"
      ELSE EndsWithErr(DictGet(Index0(ni).kv, "subnetwork", PStr(<<>>)))

\* i.get("config",{}).get("network_interface",[{}])[0].get("subnetwork","").endswith(name)
SubnetworkEndsWith(i, name) ==
   /\ SubnetworkEndsWithErr(i) = NoError
   /\ EndsWith(DictGet(NetworkInterface0(i).kv, "subnetwork", PStr(<<>>)).s, name)

\* The exception of the condition of the GKE comprehension for one cluster:
\* the second operand of "and" is evaluated only when the first is true.
GkeInSubnetErr(gke, network_name) ==
   IF RefEndsWithErr(gke, "network") # NoError THEN RefEndsWithErr(gke, "network")
   ELSE IF RefEndsWith(gke, "network", network_name) THEN RefEndsWithErr(gke, "subnetwork")
   ELSE NoError

GkeInSubnet(gke, network_name, subnet_name) ==
   /\ RefEndsWith(gke, "network", network_name)
   /\ RefEndsWith(gke, "subnetwork", subnet_name)

\* network_subnets of one network
NetworkSubnets(resources, network_name) ==
   SelectSeq(CategoryGet(resources, "subnets"), LAMBDA s : RefEndsWith(s, "network", network_name))

\* The loop over network_subnets: a cluster per subnet with its GCE and
\* GKE nodes.
RECURSIVE GoogleSubnets(_, _, _, _, _)
GoogleSubnets(g, subs, network_cluster, network_name, resources) ==
   IF subs = <<>> THEN g
   ELSE LET subnet == Head(subs)
            g1 == AddCluster(g, Label("Subnet: ", subnet.name), network_cluster)
            c == Len(g1.clusters)
            g2 == AddNodes(g1, "GCE",
                     SelectSeq(CategoryGet(resources, "instances"),
                               LAMBDA i : SubnetworkEndsWith(i, subnet.name)), c)
            g3 == AddNodes(g2, "GKE",
                     SelectSeq(CategoryGet(resources, "gke"),
                               LAMBDA k : GkeInSubnet(k, network_name, subnet.name)), c)
        IN GoogleSubnets(g3, Tail(subs), network_cluster, network_name, resources)

\* The body of "for network in networks" for one network.
GoogleNetwork(g, network, resources) ==
   LET network_name == network.name
       g1 == AddCluster(g, Label("VPC: ", network_name), 0)
       c == Len(g1.clusters)
       routers == SelectSeq(CategoryGet(resources, "routers"),
                            LAMBDA r : RefEndsWith(r, "network", network_name))
       nats == CategoryGet(resources, "nat")
       vpns == CategoryGet(resources, "vpn")
       g2 == AddNodes(g1, "Router", routers, c)
       router0 == Len(g1.nodes) + 1
       g3 == AddNodes(g2, "NAT", nats, c)
       g4 == AddNodes(g3, "VPN", vpns, c)
       g5 == ConnectAll(g4, router0, [i \in 1..Len(nats) |-> Len(g2.nodes) + i])
       g6 == ConnectAll(g5, router0, [i \in 1..Len(vpns) |-> Len(g3.nodes) + i])
       g7 == IF routers # <<>> THEN g6 ELSE g2
   IN GoogleSubnets(g7, NetworkSubnets(resources, network_name), c, network_name, resources)

RECURSIVE GoogleNetworks(_, _, _)
GoogleNetworks(g, networks, resources) ==
   IF networks = <<>> THEN g
   ELSE GoogleNetworks(GoogleNetwork(g, Head(networks), resources), Tail(networks), resources)

\* The first exception raised inside the body of "for network in networks"
\* for one network.
GoogleNetworkErr(network, resources) ==
   LET routers == CategoryGet(resources, "routers")
       subnets == CategoryGet(resources, "subnets")
       instances == CategoryGet(resources, "instances")
       gkes == CategoryGet(resources, "gke")
       subs == NetworkSubnets(resources, network.name)
   IN FirstError(
         << FirstError([i \in 1..Len(routers) |-> RefEndsWithErr(routers[i], "network")]),
            FirstError([i \in 1..Len(subnets) |-> RefEndsWithErr(subnets[i], "network")]),
            FirstError([j \in 1..Len(subs) |->
               FirstError(
                  << FirstError([i \in 1..Len(instances) |-> SubnetworkEndsWithErr(instances[i])]),
                     FirstError([i \in 1..Len(gkes) |-> GkeInSubnetErr(gkes[i], network.name)]) >>)])
         >>)

\* The first exception of the google branch, NoError when it completes.
GoogleNetworkingErr(resources) ==
   LET networks == CategoryGet(resources, "networks")
   IN FirstError([i \in 1..Len(networks) |-> GoogleNetworkErr(networks[i], resources)])

\* The google branch when no exception is raised.
GoogleNetworking(resources) ==
   LET networks == CategoryGet(resources, "networks")
       firewalls == CategoryGet(resources, "firewall")
   IN IF networks = <<>>
      THEN AddNode(EmptyDiagram, "VPC", Label("No VPC/Network found.", <<>>), 0)
      ELSE LET g1 == AddNodes(EmptyDiagram, "FirewallRules", firewalls, 0)
               g2 == GoogleNetworks(g1, networks, resources)
               g3 == AddNode(g2, "VPC", Label("", networks[1].name), 0)
           IN IF firewalls # <<>> THEN Connect(g3, 1, Len(g3.nodes)) ELSE g2

(***************************************************************************)
(* create_networking_diagram                                               *)
(***************************************************************************)

\* The exception raised inside the try block, NoError when there is none.
NetworkingErr(data, p) ==
   CASE p = "aws" -> AwsNetworkingErr(data.resources)
     [] p = "google" -> GoogleNetworkingErr(data.resources)
     [] OTHER -> NoError

\* Mutant of NetworkingBody: the except branch keeps what the try block
\* had built.
NetworkingBody_NoFallback(data, p) ==
   CASE p = "aws" -> AwsNetworking(data.resources)
     [] p = "google" -> GoogleNetworking(data.resources)
     [] OTHER -> NotImplementedDiagram(p)

\* The body of the diagram the call leaves in "<output_filename>.png": that
\* of the try block, or the placeholder of the except branch, which renders
\* to the same file after the failed attempt.
NetworkingBody(data, p) ==
   IF NetworkingErr(data, p) # NoError THEN ErrorDiagram(NetworkingErr(data, p))
   ELSE CASE p = "aws" -> AwsNetworking(data.resources)
          [] p = "google" -> GoogleNetworking(data.resources)
          [] OTHER -> NotImplementedDiagram(p)

(***************************************************************************)
(* create_conceptual_diagram                                               *)
(***************************************************************************)

\* Mutant of Arrow: every node of srcs, not only the first, is connected.
Arrow_FromEverySource(g, srcs, dsts) ==
   IF srcs # <<>> /\ dsts # <<>>
   THEN [g EXCEPT !.edges = @ \o [i \in 1..(Len(srcs) * Len(dsts)) |->
                                     [src |-> srcs[((i - 1) \div Len(dsts)) + 1],
                                      dst |-> dsts[((i - 1) % Len(dsts)) + 1]]]]
   ELSE g

\* if srcs: if dsts: srcs[0] >> dsts
Arrow(g, srcs, dsts) ==
   IF srcs # <<>> /\ dsts # <<>> THEN ConnectAll(g, srcs[1], dsts) ELSE g

\* b.get("config", {}).get("bucket", [b.get("name")])
BucketGet(b) ==
   DictGet(b.config, "bucket", PList(<<PStr(b.name)>>))

\* The labels of [S3(b...get("bucket", [b.get("name")])[0]) for b in s3].
\* (A bucket value that is no str is not among the modelled inputs.)
S3Labels(s3) ==
   [i \in 1..Len(s3) |-> [name |-> Index0(BucketGet(s3[i])).s]]

\* The first exception of the aws branch: only the S3 comprehension
\* subscripts a value of the input.
AwsConceptualErr(resources) ==
   LET s3 == CategoryGet(resources, "s3")
   IN FirstError([i \in 1..Len(s3) |-> Index0Err(BucketGet(s3[i]))])

\* The "Connections" of the aws branch, over the node numbers of each list.
AwsConnections(g, n) ==
   LET g1 == IF n.cf_nodes # <<>> THEN Arrow(g, n.route53_nodes, n.cf_nodes)
             ELSE Arrow(g, n.route53_nodes, n.lb_nodes)
       g2 == Arrow(g1, n.cf_nodes, n.lb_nodes)
       g3 == Arrow(g2, n.cf_nodes, n.s3_nodes)
       g4 == Arrow(g3, n.acm_nodes, n.cf_nodes)
       g5 == Arrow(g4, n.acm_nodes, n.lb_nodes)
       g6 == Arrow(g5, n.lb_nodes, n.instance_nodes)
       g7 == Arrow(g6, n.lb_nodes, n.eks_nodes)
       g8 == Arrow(g7, n.apigw_nodes, n.lambda_nodes)
       compute_nodes == n.instance_nodes \o n.eks_nodes
       database_nodes == n.db_nodes \o n.dynamodb_nodes \o n.elasticache_nodes
       g9 == Arrow(g8, compute_nodes, database_nodes)
       g10 == Arrow(g9, compute_nodes, n.s3_nodes)
       g11 == Arrow(g10, compute_nodes, n.efs_nodes)
   IN Arrow(g11, n.lambda_nodes, database_nodes)

\* The aws branch when no exception is raised.
AwsConceptual(resources) ==
   LET R(c) == CategoryGet(resources, c)
       c1 == AddCluster(EmptyDiagram, Label("AWS Account", <<>>), 0)
       c2 == AddCluster(c1, Label("Region", <<>>), 1)
       c3 == AddCluster(c2, Label("Networking", <<>>), 2)
       lb == AddNodes(c3, "ELB", R("alb") \o R("nlb"), 3)
       cf == AddNodes(lb, "CloudFront", R("cloudfront"), 3)
       r53 == AddNodes(cf, "Route53", R("route53"), 3)
       c4 == AddCluster(r53, Label("Compute", <<>>), 2)
       inst == AddNodes(c4, "EC2", R("instances"), 4)
       eks == AddNodes(inst, "EKS", R("eks"), 4)
       c5 == AddCluster(eks, Label("Serverless", <<>>), 2)
       lam == AddNodes(c5, "Lambda", R("lambda"), 5)
       apigw == AddNodes(lam, "APIGateway", R("apigateway"), 5)
       c6 == AddCluster(apigw, Label("Database", <<>>), 2)
       db == AddNodes(c6, "RDS", R("rds"), 6)
       dyn == AddNodes(db, "Dynamodb", R("dynamodb"), 6)
       ec == AddNodes(dyn, "ElastiCache", R("elasticache"), 6)
       c7 == AddCluster(ec, Label("Storage", <<>>), 2)
       s3 == AddNodes(c7, "S3", S3Labels(R("s3")), 7)
       efs == AddNodes(s3, "EFS", R("efs"), 7)
       c8 == AddCluster(efs, Label("Security", <<>>), 2)
       acm == AddNodes(c8, "ACM", R("acm"), 8)
       iam == AddNodes(acm, "IAM", R("iam_roles"), 8)
       c9 == AddCluster(iam, Label("Application Integration", <<>>), 2)
       sqs == AddNodes(c9, "SQS", R("sqs"), 9)
   IN AwsConnections(sqs,
         [lb_nodes |-> LastNodes(lb, Len(R("alb") \o R("nlb"))),
          cf_nodes |-> LastNodes(cf, Len(R("cloudfront"))),
          route53_nodes |-> LastNodes(r53, Len(R("route53"))),
          instance_nodes |-> LastNodes(inst, Len(R("instances"))),
          eks_nodes |-> LastNodes(eks, Len(R("eks"))),
          lambda_nodes |-> LastNodes(lam, Len(R("lambda"))),
          apigw_nodes |-> LastNodes(apigw, Len(R("apigateway"))),
          db_nodes |-> LastNodes(db, Len(R("rds"))),
          dynamodb_nodes |-> LastNodes(dyn, Len(R("dynamodb"))),
          elasticache_nodes |-> LastNodes(ec, Len(R("elasticache"))),
          s3_nodes |-> LastNodes(s3, Len(R("s3"))),
          efs_nodes |-> LastNodes(efs, Len(R("efs"))),
          acm_nodes |-> LastNodes(acm, Len(R("acm")))])

\* Mutant of GoogleConnections: the DNS zone points at the compute nodes.
GoogleConnections_DnsToCompute(g, n) ==
   LET compute_nodes == n.instance_nodes \o n.gke_nodes \o n.function_nodes
       database_nodes == n.db_nodes \o n.firestore_nodes \o n.redis_nodes
       g1 == Arrow(g, n.dns_nodes, compute_nodes)
       g2 == Arrow(g1, n.lb_nodes, compute_nodes)
       g3 == Arrow(g2, compute_nodes, database_nodes)
   IN Arrow(g3, compute_nodes, n.bucket_nodes)

\* "Establish logical connections" of the google branch.
GoogleConnections(g, n) ==
   LET compute_nodes == n.instance_nodes \o n.gke_nodes \o n.function_nodes
       database_nodes == n.db_nodes \o n.firestore_nodes \o n.redis_nodes
       g1 == Arrow(g, n.dns_nodes, n.lb_nodes)
       g2 == Arrow(g1, n.lb_nodes, compute_nodes)
       g3 == Arrow(g2, compute_nodes, database_nodes)
   IN Arrow(g3, compute_nodes, n.bucket_nodes)

\* The google branch; it subscripts no value of the input and raises nothing.
GoogleConceptual(resources) ==
   LET R(c) == CategoryGet(resources, c)
       c1 == AddCluster(EmptyDiagram, Label("GCP Project", <<>>), 0)
       c2 == AddCluster(c1, Label("Networking", <<>>), 1)
       dns == AddNodes(c2, "DNS", R("dns"), 2)
       lb == AddNodes(dns, "LoadBalancing", R("load_balancing"), 2)
       c3 == AddCluster(lb, Label("Compute", <<>>), 1)
       inst == AddNodes(c3, "GCE", R("instances"), 3)
       gke == AddNodes(inst, "GKE", R("gke"), 3)
       fn == AddNodes(gke, "GCF", R("functions"), 3)
       c4 == AddCluster(fn, Label("Database", <<>>), 1)
       db == AddNodes(c4, "SQL", R("sql"), 4)
       fs == AddNodes(db, "Datastore", R("firestore"), 4)
       redis == AddNodes(fs, "Memorystore", R("memorystore"), 4)
       c5 == AddCluster(redis, Label("Storage", <<>>), 1)
       bucket == AddNodes(c5, "GCS", R("storage_buckets"), 5)
       c6 == AddCluster(bucket, Label("IAM", <<>>), 1)
       iam == AddNodes(c6, "Blank", R("iam_roles"), 6)
   IN GoogleConnections(iam,
         [dns_nodes |-> LastNodes(dns, Len(R("dns"))),
          lb_nodes |-> LastNodes(lb, Len(R("load_balancing"))),
          instance_nodes |-> LastNodes(inst, Len(R("instances"))),
          gke_nodes |-> LastNodes(gke, Len(R("gke"))),
          function_nodes |-> LastNodes(fn, Len(R("functions"))),
          db_nodes |-> LastNodes(db, Len(R("sql"))),
          firestore_nodes |-> LastNodes(fs, Len(R("firestore"))),
          redis_nodes |-> LastNodes(redis, Len(R("memorystore"))),
          bucket_nodes |-> LastNodes(bucket, Len(R("storage_buckets")))])

\* The exception raised inside the try block, NoError when there is none.
ConceptualErr(data, p) ==
   IF p = "aws" THEN AwsConceptualErr(data.resources) ELSE NoError

\* Mutant of ConceptualBody: every provider other than aws takes the google
\* branch.
ConceptualBody_NoElse(data, p) ==
   IF ConceptualErr(data, p) # NoError THEN ErrorDiagram(ConceptualErr(data, p))
   ELSE CASE p = "aws" -> AwsConceptual(data.resources)
          [] OTHER -> GoogleConceptual(data.resources)

\* The body of the diagram the call leaves in "<output_filename>.png".
ConceptualBody(data, p) ==
   IF ConceptualErr(data, p) # NoError THEN ErrorDiagram(ConceptualErr(data, p))
   ELSE CASE p = "aws" -> AwsConceptual(data.resources)
          [] p = "google" -> GoogleConceptual(data.resources)
          [] OTHER -> NotImplementedDiagram(p)

\* f"{output_filename}.png"
ArtifactOf(output_filename) ==
   output_filename \o ".png"

(***************************************************************************)
(* Inputs: the names and reference strings of the declared resources       *)
(***************************************************************************)

Str_web == <<"w", "e", "b">>
Str_web_prod == <<"w", "e", "b", "-", "p", "r", "o", "d">>
Str_web_prod_subnet == <<"w", "e", "b", "-", "p", "r", "o", "d", "-", "s", "u", "b", "n", "e", "t">>
Str_public_a == <<"p", "u", "b", "l", "i", "c", "-", "a">>
Str_private_b == <<"p", "r", "i", "v", "a", "t", "e", "-", "b">>
Str_mgmt_a == <<"m", "g", "m", "t", "-", "a">>
Str_Public_X == <<"P", "u", "b", "l", "i", "c", "-", "X">>
Str_public_m == <<"p", "u", "b", "l", "i", "c", "-", "m">>
Str_private_n == <<"p", "r", "i", "v", "a", "t", "e", "-", "n">>
Str_public_k == <<"p", "u", "b", "l", "i", "c", "-", "k">>
Str_public_u == <<"p", "u", "b", "l", "i", "c", "-", "u">>
Str_public_private_c == <<"p", "u", "b", "l", "i", "c", "-", "p", "r", "i", "v", "a", "t", "e", "-", "c">>
Str_app_public_1 == <<"a", "p", "p", "-", "p", "u", "b", "l", "i", "c", "-", "1">>
Str_app_public_10 == <<"a", "p", "p", "-", "p", "u", "b", "l", "i", "c", "-", "1", "0">>
Str_WEB == <<"W", "E", "B">>
Str_app_vpc == <<"a", "p", "p", "-", "v", "p", "c">>
Str_app_vpc_public_1 == <<"a", "p", "p", "-", "v", "p", "c", "-", "p", "u", "b", "l", "i", "c", "-", "1">>
Str_app_vpc_ref == <<"$", "{", "a", "w", "s", "_", "v", "p", "c", ".", "a", "p", "p", "-", "v", "p", "c", ".", "i", "d", "}">>
Str_app_subnet_ref == <<"$", "{", "a", "w", "s", "_", "s", "u", "b", "n", "e", "t", ".", "a", "p", "p", "-", "v", "p", "c", "-", "p", "u", "b", "l", "i", "c", "-", "1", ".", "i", "d", "}">>
Str_vm1 == <<"v", "m", "1">>
Str_vm2 == <<"v", "m", "2">>
Str_vm3 == <<"v", "m", "3">>
Str_vm4 == <<"v", "m", "4">>
Str_igw == <<"i", "g", "w">>
Str_nat == <<"n", "a", "t">>
Str_public_rt == <<"p", "u", "b", "l", "i", "c", "-", "r", "t">>
Str_private_rt == <<"p", "r", "i", "v", "a", "t", "e", "-", "r", "t">>
Str_acl == <<"a", "c", "l">>
Str_x == <<"x">>
Str_lb == <<"l", "b">>
Str_cdn == <<"c", "d", "n">>
Str_zone == <<"z", "o", "n", "e">>
Str_k8s == <<"k", "8", "s">>
Str_fn == <<"f", "n">>
Str_api == <<"a", "p", "i">>
Str_db1 == <<"d", "b", "1">>
Str_tbl == <<"t", "b", "l">>
Str_cache == <<"c", "a", "c", "h", "e">>
Str_aur == <<"a", "u", "r">>
Str_bkt == <<"b", "k", "t">>
Str_assets == <<"a", "s", "s", "e", "t", "s">>
Str_bad == <<"b", "a", "d">>
Str_plain == <<"p", "l", "a", "i", "n">>
Str_fs == <<"f", "s">>
Str_cert == <<"c", "e", "r", "t">>
Str_role == <<"r", "o", "l", "e">>
Str_q == <<"q">>
Str_asg == <<"a", "s", "g">>
Str_prod == <<"p", "r", "o", "d">>
Str_net_web_prod == <<"n", "e", "t", "/", "w", "e", "b", "-", "p", "r", "o", "d">>
Str_sub_a == <<"s", "u", "b", "-", "a">>
Str_sub_b == <<"s", "u", "b", "-", "b">>
Str_sub_c == <<"s", "u", "b", "-", "c">>
Str_sub_d == <<"s", "u", "b", "-", "d">>
Str_sub_e == <<"s", "u", "b", "-", "e">>
Str_r1 == <<"r", "1">>
Str_vpn == <<"v", "p", "n">>
Str_fw == <<"f", "w">>
Str_span == <<"s", "p", "a", "n">>
Str_doc == <<"d", "o", "c">>
Str_vnet == <<"v", "n", "e", "t">>

\* One declared resource of a file: hcl2 gives {type: {name: config}}, every
\* attribute value of config wrapped in a list.
Res(type, name, config) ==
   [type |-> type, name |-> name, config |-> config]

\* A reference attribute as hcl2 wraps it: key = "value" gives {key: ["value"]}
Ref(key, s) ==
   <<KV(key, PList(<<PStr(s)>>))>>

\* One .tf file: readable is whether open() and read() succeed on it, text
\* the providers P for which it contains 'provider "P"', ok whether open()
\* and hcl2.load() succeed; resource, variable and module are
\* tf_dict.get('resource', []), .get('variable', []) and .get('module', []).
FileOf(ok, resource, variable, module) ==
   [ok |-> ok, readable |-> TRUE, text |-> {},
    resource |-> resource, variable |-> variable, module |-> module]

\* A file of resource blocks only.
File(ok, resource) ==
   FileOf(ok, resource, <<>>, <<>>)

\* One variable or module block: hcl2 gives {name: details}.
Block(name, details) ==
   [name |-> name, details |-> details]

\* Resources for the containment part of the aws networking diagram:
\* a network, subnets and instances with well-formed, malformed and missing
\* references, and a resource of a type the table does not list.
AwsTopologyPool ==
   << Res("aws_vpc", Str_web, <<>>),
      Res("aws_subnet", Str_public_a, Ref("vpc_id", Str_web_prod_subnet)),
      Res("aws_subnet", Str_private_b, Ref("vpc_id", Str_web)),
      Res("aws_subnet", Str_mgmt_a, Ref("vpc_id", Str_web_prod_subnet)),
      Res("aws_subnet", Str_Public_X, Ref("vpc_id", Str_web)),
      Res("aws_subnet", Str_public_m, <<KV("vpc_id", PList(<<>>))>>),
      Res("aws_subnet", Str_private_n, <<KV("vpc_id", PList(<<PInt>>))>>),
      Res("aws_subnet", Str_public_k, <<>>),
      Res("aws_subnet", Str_public_u, Ref("vpc_id", Str_WEB)),
      Res("aws_instance", Str_vm1, Ref("subnet_id", Str_public_a)),
      Res("aws_instance", Str_vm2, <<KV("subnet_id", PList(<<>>))>>),
      Res("aws_instance", Str_vm3, <<>>),
      Res("aws_foo", Str_x, <<>>) >>

\* Two networks, the name of one a prefix of the name of the other.
AwsTwoVpcs ==
   << Res("aws_vpc", Str_web, <<>>),
      Res("aws_vpc", Str_web_prod, <<>>) >>

\* The end-to-end scenario: one network, one public subnet in it, one
\* compute resource in the subnet, one internet gateway.
AwsEndToEnd ==
   << Res("aws_vpc", Str_app_vpc, <<>>),
      Res("aws_subnet", Str_app_vpc_public_1, Ref("vpc_id", Str_app_vpc_ref)),
      Res("aws_instance", Str_vm1, Ref("subnet_id", Str_app_subnet_ref)),
      Res("aws_internet_gateway", Str_igw, Ref("vpc_id", Str_app_vpc_ref)) >>

\* Resources for the gateways and route tables of the aws networking diagram.
AwsGatewayPool ==
   << Res("aws_internet_gateway", Str_igw, Ref("vpc_id", Str_web)),
      Res("aws_nat_gateway", Str_nat, Ref("subnet_id", Str_public_a)),
      Res("aws_route_table", Str_public_rt, Ref("vpc_id", Str_web)),
      Res("aws_route_table", Str_private_rt, Ref("vpc_id", Str_web)),
      Res("aws_network_acl", Str_acl, Ref("vpc_id", Str_web)),
      Res("aws_subnet", Str_private_b, Ref("vpc_id", Str_web)),
      Res("aws_instance", Str_vm1, Ref("subnet_id", Str_public_a)),
      Res("aws_route_table", Str_Public_X, Ref("vpc_id", Str_web)),
      Res("aws_route_table", Str_private_n, Ref("vpc_id", Str_web)) >>

\* One network with one public subnet.
AwsOneVpc ==
   << Res("aws_vpc", Str_web, <<>>),
      Res("aws_subnet", Str_public_a, Ref("vpc_id", Str_web_prod_subnet)) >>

\* Two networks; the first has a public subnet with a NAT gateway, an
\* internet gateway and a public and a private route table, the second a
\* public route table declared last.
AwsRoutedVpcs ==
   << Res("aws_vpc", Str_web, <<>>),
      Res("aws_vpc", Str_app_vpc, <<>>),
      Res("aws_subnet", Str_public_a, Ref("vpc_id", Str_web_prod_subnet)),
      Res("aws_internet_gateway", Str_igw, Ref("vpc_id", Str_web)),
      Res("aws_nat_gateway", Str_nat, Ref("subnet_id", Str_public_a)),
      Res("aws_route_table", Str_public_rt, Ref("vpc_id", Str_web)),
      Res("aws_route_table", Str_private_rt, Ref("vpc_id", Str_web)),
      Res("aws_route_table", Str_public_k, Ref("vpc_id", Str_app_vpc_ref)) >>

\* One network whose names overlap: a subnet and a route table named with
\* both tier words, and two subnets, the name of one a prefix of the name
\* of the other, with a compute resource that refers to the longer one.
AwsOverlappingNames ==
   << Res("aws_vpc", Str_web, <<>>),
      Res("aws_subnet", Str_public_private_c, Ref("vpc_id", Str_web)),
      Res("aws_route_table", Str_public_private_c, Ref("vpc_id", Str_web)),
      Res("aws_subnet", Str_app_public_1, Ref("vpc_id", Str_web)),
      Res("aws_subnet", Str_app_public_10, Ref("vpc_id", Str_web)),
      Res("aws_instance", Str_vm2, Ref("subnet_id", Str_app_public_10)) >>

\* Resources for the aws conceptual diagram.
AwsConceptualPool ==
   << Res("aws_lb", Str_lb, <<>>),
      Res("aws_cloudfront_distribution", Str_cdn, <<>>),
      Res("aws_route53_zone", Str_zone, <<>>),
      Res("aws_instance", Str_vm1, <<>>),
      Res("aws_autoscaling_group", Str_asg, <<>>),
      Res("aws_eks_cluster", Str_k8s, <<>>),
      Res("aws_lambda_function", Str_fn, <<>>),
      Res("aws_api_gateway_rest_api", Str_api, <<>>),
      Res("aws_db_instance", Str_db1, <<>>),
      Res("aws_dynamodb_table", Str_tbl, <<>>),
      Res("aws_rds_cluster", Str_aur, <<>>),
      Res("aws_s3_bucket", Str_bkt, Ref("bucket", Str_assets)),
      Res("aws_s3_bucket", Str_bad, <<KV("bucket", PList(<<>>))>>),
      Res("aws_s3_bucket", Str_plain, <<>>),
      Res("aws_efs_file_system", Str_fs, <<>>),
      Res("aws_acm_certificate", Str_cert, <<>>),
      Res("aws_sqs_queue", Str_q, <<>>) >>

\* A load balancer in front of an instance with a database.
AwsWebStack ==
   << Res("aws_lb", Str_lb, <<>>),
      Res("aws_instance", Str_vm2, <<>>),
      Res("aws_db_instance", Str_doc, <<>>) >>

\* Resources for the google networking diagram.  The subnetwork of a
\* network_interface block is a plain str in vm1 and wrapped in a list, as
\* hcl2 wraps attribute values, in vm2.
GoogleNetworkPool ==
   << Res("google_compute_network", Str_prod, <<>>),
      Res("google_compute_subnetwork", Str_sub_a, Ref("network", Str_net_web_prod)),
      Res("google_compute_subnetwork", Str_sub_b, Ref("network", Str_prod)),
      Res("google_compute_subnetwork", Str_sub_c, <<KV("network", PList(<<>>))>>),
      Res("google_compute_subnetwork", Str_sub_d, <<KV("network", PList(<<PInt>>))>>),
      Res("google_compute_subnetwork", Str_sub_e, <<>>),
      Res("google_compute_instance", Str_vm1,
          <<KV("network_interface", PList(<<PDict(<<KV("subnetwork", PStr(Str_sub_a))>>)>>))>>),
      Res("google_compute_instance", Str_vm2,
          <<KV("network_interface",
               PList(<<PDict(<<KV("subnetwork", PList(<<PStr(Str_sub_a)>>))>>)>>))>>),
      Res("google_compute_instance", Str_vm3, <<>>),
      Res("google_compute_instance", Str_vm4, <<KV("network_interface", PList(<<>>))>>),
      Res("google_container_cluster", Str_k8s,
          Ref("network", Str_prod) \o Ref("subnetwork", Str_sub_b)),
      Res("google_compute_router", Str_r1, Ref("network", Str_prod)),
      Res("google_compute_router_nat", Str_nat, <<>>),
      Res("google_compute_vpn_gateway", Str_vpn, <<>>),
      Res("google_compute_firewall", Str_fw, Ref("network", Str_prod)) >>

\* Two networks, the name of one a suffix of the name of the other.
GoogleTwoNetworks ==
   << Res("google_compute_network", Str_prod, <<>>),
      Res("google_compute_network", Str_web_prod, <<>>) >>

\* Resources for the google conceptual diagram, and one of another provider.
GoogleConceptualPool ==
   << Res("google_dns_managed_zone", Str_zone, <<>>),
      Res("google_compute_forwarding_rule", Str_lb, <<>>),
      Res("google_compute_instance", Str_vm1, <<>>),
      Res("google_compute_instance_template", Str_asg, <<>>),
      Res("google_container_cluster", Str_k8s, <<>>),
      Res("google_cloudfunctions_function", Str_fn, <<>>),
      Res("google_sql_database_instance", Str_db1, <<>>),
      Res("google_firestore_database", Str_tbl, <<>>),
      Res("google_spanner_instance", Str_span, <<>>),
      Res("google_storage_bucket", Str_bkt, <<>>),
      Res("google_service_account", Str_role, <<>>),
      Res("google_compute_instance", Str_vm4, <<KV("machine_type", PList(<<>>))>>),
      Res("aws_instance", Str_vm3, <<>>) >>

\* A load balancer in front of an instance with a database.
GoogleWebStack ==
   << Res("google_compute_forwarding_rule", Str_lb, <<>>),
      Res("google_compute_instance", Str_vm2, <<>>),
      Res("google_sql_database_instance", Str_doc, <<>>) >>

\* Resources for the providers without diagrams.
OtherPool ==
   << Res("azurerm_virtual_network", Str_vnet, <<>>),
      Res("azurerm_subnet", Str_sub_a, <<>>),
      Res("azurerm_linux_virtual_machine", Str_vm1, <<>>),
      Res("aws_vpc", Str_web, <<>>),
      Res("google_compute_network", Str_prod, <<>>),
      Res("ibm_is_vpc", Str_x, <<>>) >>

Str_region ==<<"r", "e", "g", "i", "o", "n">>
Str_size == <<"s", "i", "z", "e">>
Str_tags == <<"t", "a", "g", "s">>
Str_name == <<"n", "a", "m", "e">>
Str_core == <<"c", "o", "r", "e">>
Str_edge == <<"e", "d", "g", "e">>
Str_logs == <<"l", "o", "g", "s">>
Str_local_path == <<".", "/", "m">>

\* Variable blocks: a description and a default as hcl2 wraps them, a
\* default that is a number, one that is an empty list, and none.
VariableBlocks ==
   << Block(Str_region, <<KV("description", PList(<<PStr(Str_doc)>>)),
                          KV("default", PList(<<PStr(Str_x)>>))>>),
      Block(Str_size, <<KV("default", PInt)>>),
      Block(Str_tags, <<KV("description", PList(<<>>)), KV("default", PList(<<>>))>>),
      Block(Str_name, <<>>) >>

\* Module blocks with and without a source.
ModuleBlocks ==
   << Block(Str_core, Ref("source", Str_local_path)),
      Block(Str_edge, <<>>) >>

\* Module blocks the second of which has an empty source list.
BrokenModuleBlocks ==
   << Block(Str_core, Ref("source", Str_local_path)),
      Block(Str_logs, <<KV("source", PList(<<>>))>>),
      Block(Str_edge, <<>>) >>

\* A file of variables and modules, and one whose module loop raises after
\* a resource and the variables were extracted.
DeclarationFiles ==
   {<<>>,
    <<FileOf(TRUE, <<>>, VariableBlocks, ModuleBlocks)>>,
    <<FileOf(TRUE, <<Res("azurerm_storage_account", Str_bkt, <<>>),
                     Res("ibm_is_instance", Str_vm2, <<>>)>>,
             VariableBlocks, BrokenModuleBlocks)>>}

\* At most MaxExtra resources of a pool are declared next to a base.
MaxExtra == 2

\* Each suite: a provider, the base files to start from and a pool.
Suites ==
   { [provider |-> "aws", pool |-> AwsTopologyPool,
      bases |-> {<<>>, <<File(TRUE, AwsTwoVpcs)>>, <<File(TRUE, AwsEndToEnd)>>,
                 <<File(FALSE, AwsTwoVpcs)>>}],
     [provider |-> "aws", pool |-> AwsGatewayPool,
      bases |-> {<<File(TRUE, AwsOneVpc)>>, <<File(TRUE, AwsRoutedVpcs)>>,
                 <<File(TRUE, AwsOverlappingNames)>>}],
     [provider |-> "aws", pool |-> AwsConceptualPool,
      bases |-> {<<>>, <<File(TRUE, AwsWebStack)>>}],
     [provider |-> "google", pool |-> GoogleNetworkPool,
      bases |-> {<<>>, <<File(TRUE, GoogleTwoNetworks)>>}],
     [provider |-> "google", pool |-> GoogleConceptualPool,
      bases |-> {<<>>, <<File(TRUE, GoogleWebStack)>>}],
     [provider |-> "azurerm", pool |-> OtherPool, bases |-> DeclarationFiles],
     [provider |-> "ibm", pool |-> OtherPool, bases |-> DeclarationFiles] }

\* The sets of at most k of the positions 1..n.
RECURSIVE Selections(_, _)
Selections(n, k) ==
   IF n = 0 \/ k = 0 THEN {{}}
   ELSE Selections(n - 1, k) \cup {s \cup {n} : s \in Selections(n - 1, k - 1)}

\* The elements of seq at the positions in sel, in the order of seq.
RECURSIVE Pick(_, _)
Pick(seq, sel) ==
   IF seq = <<>> THEN <<>>
   ELSE Pick(SubSeq(seq, 1, Len(seq) - 1), sel)
           \o (IF Len(seq) \in sel THEN <<seq[Len(seq)]>> ELSE <<>>)

Reverse(seq) ==
   [i \in 1..Len(seq) |-> seq[Len(seq) + 1 - i]]

\* The directory in the opposite discovery order: files and the blocks of
\* each file reversed.
ReverseFiles(fs) ==
   Reverse([i \in 1..Len(fs) |-> [fs[i] EXCEPT !.resource = Reverse(@),
                                                !.variable = Reverse(@),
                                                !.module = Reverse(@)]])

\* The directories of a suite: a base and a file of extra declarations.
Directories(suite) ==
   { base \o <<File(TRUE, Pick(suite.pool, sel))>> :
       base \in suite.bases, sel \in Selections(Len(suite.pool), MaxExtra) }

(***************************************************************************)
(* terraform_parser.py: find_provider                                      *)
(***************************************************************************)

\* The first file, in discovery order, that can be read and declares one of
\* the three providers decides; within a file aws is tested first, then
\* azurerm, then google.  A file that cannot be read is passed over.
RECURSIVE find_provider(_)
find_provider(fs) ==
   IF fs = <<>> THEN None
   ELSE LET f == Head(fs)
        IN IF f.readable /\ "aws" \in f.text THEN "aws"
           ELSE IF f.readable /\ "azurerm" \in f.text THEN "azurerm"
           ELSE IF f.readable /\ "google" \in f.text THEN "google"
           ELSE find_provider(Tail(fs))

(***************************************************************************)
(* docx_generator.py: DocxGenerator                                        *)
(***************************************************************************)

\* Mutant of SumLen: only the first category of a concern is counted.
SumLen_FirstOnly(resources, categories) ==
   IF categories = <<>> THEN 0
   ELSE Len(CategoryGet(resources, Head(categories)))

\* The sum of len(resources.get(c, [])) over the categories of a concern.
RECURSIVE SumLen(_, _)
SumLen(resources, categories) ==
   IF categories = <<>> THEN 0
   ELSE Len(CategoryGet(resources, Head(categories))) + SumLen(resources, Tail(categories))

\* The keys of points with the categories each one sums, in the order of
\* the assignments.
SummaryConcerns ==
   << [key |-> "vpcs", categories |-> <<"vpcs", "vnets", "networks">>],
      [key |-> "instances", categories |-> <<"instances", "vms">>],
      [key |-> "databases", categories |-> <<"rds", "sql_db", "sql", "dynamodb", "cosmosdb">>],
      [key |-> "containers", categories |-> <<"eks", "ecs", "aks", "gke">>],
      [key |-> "functions", categories |-> <<"lambda", "functions">>],
      [key |-> "storage", categories |-> <<"s3", "storage_accounts", "storage_buckets">>],
      [key |-> "load_balancers", categories |-> <<"alb", "nlb", "app_gateway", "load_balancer", "load_balancing">>] >>

\* _generate_summary_points(): the dict of the concerns whose count is
\* positive, as a function from key to count.
SummaryPoints(data) ==
   LET positive == {i \in 1..Len(SummaryConcerns) :
                       SumLen(data.resources, SummaryConcerns[i].categories) > 0}
   IN [k \in {SummaryConcerns[i].key : i \in positive} |->
          SumLen(data.resources,
                 SummaryConcerns[CHOOSE i \in positive : SummaryConcerns[i].key = k].categories)]

\* The exception of r['config'].get(key, ['N/A'])[0], NoError when none.
AttributeErr(r, key) ==
   Index0Err(DictGet(r.config, key, PList(<<PStr(Str_NA)>>)))

\* The exceptions of one table of create_sdd: for each resource of the
\* category, in order, the subscripts of the listed attributes.
TableErr(data, category, keys) ==
   LET list == CategoryGet(data.resources, category)
   IN FirstError([i \in 1..Len(list) |->
                    FirstError([k \in 1..Len(keys) |-> AttributeErr(list[i], keys[k])])])

\* The first exception create_sdd raises, NoError when the document is
\* saved.  The two pictures are added inside try blocks of their own; the
\* tables of sections 5 and 6 subscript attribute lists outside any try
\* block.  (Firewall rules are declared without allow blocks here.)
CreateSddErr(data) ==
   FirstError(<< TableErr(data, "instances", <<"machine_type", "zone">>),
                 TableErr(data, "storage_buckets", <<"location">>),
                 TableErr(data, "firewall", <<"network">>),
                 TableErr(data, "iam_roles", <<"account_id", "display_name">>) >>)

(***************************************************************************)
(* The state machine: main.py calls the parser, then the two diagram       *)
(* builders                                                                *)
(***************************************************************************)

NotRun ==
   [done |-> FALSE, error |-> NoError, body |-> EmptyDiagram, returned |-> ""]

\* parsed_data before the parser has run
NotParsed ==
   [resources |-> <<>>, variables |-> <<>>, modules |-> <<>>]

NoReport ==
   [done |-> FALSE, summary_points |-> <<>>, error |-> NoError, saved |-> FALSE]

Init ==
   /\ \E suite \in Suites :
         /\ provider = suite.provider
         /\ \E d \in Directories(suite) : files \in {d, ReverseFiles(d)}
   /\ pc = "start"
   /\ parsed_data = NotParsed
   /\ warnings = 0
   /\ conceptual = NotRun
   /\ networking = NotRun
   /\ report = NoReport

\* parsed_data = parse_terraform_directory(terraform_dir, provider)
ParseTerraformDirectory ==
   /\ pc \in {"start", "parsed"}
   /\ pc' = "parsed"
   /\ LET result == ParseResult(files, provider)
      IN /\ parsed_data' = [resources |-> result.resources,
                            variables |-> result.variables,
                            modules |-> result.modules]
         /\ warnings' = result.warnings
   /\ UNCHANGED <<provider, files, conceptual, networking, report>>

\* create_conceptual_diagram(parsed_data, provider, "conceptual_diagram")
CreateConceptualDiagram ==
   /\ pc = "parsed"
   /\ conceptual' = [done |-> TRUE,
                     error |-> ConceptualErr(parsed_data, provider),
                     body |-> ConceptualBody(parsed_data, provider),
                     returned |-> ArtifactOf("conceptual_diagram")]
   /\ UNCHANGED <<provider, files, pc, parsed_data, warnings, networking, report>>

\* Mutant of CreateNetworkingDiagram: the builder empties the list of
\* subnets it has drawn.
CreateNetworkingDiagram_ConsumesSubnets ==
   /\ pc = "parsed"
   /\ networking' = [done |-> TRUE,
                     error |-> NetworkingErr(parsed_data, provider),
                     body |-> NetworkingBody(parsed_data, provider),
                     returned |-> ArtifactOf("networking_diagram")]
   /\ parsed_data' = [parsed_data EXCEPT !.resources =
                         [c \in DOMAIN @ |-> IF c = "subnets" THEN <<>> ELSE @[c]]]
   /\ UNCHANGED <<provider, files, pc, warnings, conceptual, report>>

\* create_networking_diagram(parsed_data, provider, "networking_diagram")
CreateNetworkingDiagram ==
   /\ pc = "parsed"
   /\ networking' = [done |-> TRUE,
                     error |-> NetworkingErr(parsed_data, provider),
                     body |-> NetworkingBody(parsed_data, provider),
                     returned |-> ArtifactOf("networking_diagram")]
   /\ UNCHANGED <<provider, files, pc, parsed_data, warnings, conceptual, report>>

\* DocxGenerator(data=parsed_data, ..., conceptual_img, networking_img)
\* .create_sdd(output_filename), the two paths being what the diagram
\* builders returned
CreateSdd ==
   /\ pc = "parsed"
   /\ conceptual.done
   /\ networking.done
   /\ report' = [done |-> TRUE,
                 summary_points |-> SummaryPoints(parsed_data),
                 error |-> CreateSddErr(parsed_data),
                 saved |-> CreateSddErr(parsed_data) = NoError]
   /\ UNCHANGED <<provider, files, pc, parsed_data, warnings, conceptual, networking>>

Next ==
   \/ ParseTerraformDirectory
   \/ CreateConceptualDiagram
   \/ CreateNetworkingDiagram
   \/ CreateSdd

Spec ==
   Init /\ [][Next]_vars

(***************************************************************************)
(* main.py: one run of main() on an existing directory, from the detection *)
(* of the provider (line 24) to the report                                 *)
(***************************************************************************)

\* The directories of the runs of main(): the empty one, and those of a
\* suite with the provider declarations ps in the text of file k, that file
\* readable or not.
MainSuites ==
   {s \in Suites : s.pool \in {AwsGatewayPool, OtherPool}}

Declarations(p) ==
   {{}, {p}, {"aws", "google"}, {"ibm"}}

MainDirectories ==
   {<<>>} \cup
   UNION { UNION { { [d EXCEPT ![k] = [@ EXCEPT !.text = ps, !.readable = r, !.ok = @ /\ r]] :
                       ps \in Declarations(s.provider), r \in BOOLEAN, k \in 1..Len(d) } :
                     d \in Directories(s) } :
             s \in MainSuites }

MainInit ==
   /\ files \in MainDirectories
   /\ provider = None
   /\ pc = "main"
   /\ parsed_data = NotParsed
   /\ warnings = 0
   /\ conceptual = NotRun
   /\ networking = NotRun
   /\ report = NoReport

\* provider = find_provider(terraform_dir); sys.exit(1) if there is none
DetectProvider ==
   /\ pc = "main"
   /\ provider' = find_provider(files)
   /\ pc' = IF find_provider(files) = None THEN "exit(1)" ELSE "start"
   /\ UNCHANGED <<files, parsed_data, warnings, conceptual, networking, report>>

\* main() calls the parser, the two diagram builders and the report
\* generator once each, in this order.
MainParse ==
   pc = "start" /\ ParseTerraformDirectory

MainConceptual ==
   ~conceptual.done /\ CreateConceptualDiagram

MainNetworking ==
   conceptual.done /\ ~networking.done /\ CreateNetworkingDiagram

MainReport ==
   networking.done /\ ~report.done /\ CreateSdd

MainNext ==
   \/ DetectProvider
   \/ MainParse
   \/ MainConceptual
   \/ MainNetworking
   \/ MainReport

\* main() runs to its end: no step of it waits for anything.
MainSpec ==
   MainInit /\ [][MainNext]_vars /\ WF_vars(MainNext)

(***************************************************************************)
(* Properties of the classification                                        *)
(***************************************************************************)

\* The resources declared in the files that can be read, in discovery order.
RECURSIVE DeclaredIn(_)
DeclaredIn(fs) ==
   IF fs = <<>> THEN <<>>
   ELSE (IF Head(fs).ok THEN Head(fs).resource ELSE <<>>) \o DeclaredIn(Tail(fs))

\* The declared type t is in the table of provider p.
KnownType(p, t) ==
   \E i \in 1..Len(RESOURCE_MAP_get(p)) : InSeq(t, RESOURCE_MAP_get(p)[i].types)

\* C1: once the directory is parsed, every category of the provider's
\* taxonomy table is a key of the resources mapping, and its list is empty
\* when no readable file declares a resource of one of its types.
C1_Completeness ==
   pc = "parsed" =>
      \A i \in 1..Len(RESOURCE_MAP_get(provider)) :
         LET e == RESOURCE_MAP_get(provider)[i]
         IN /\ e.category \in DOMAIN parsed_data.resources
            /\ (\A k \in 1..Len(DeclaredIn(files)) : ~InSeq(DeclaredIn(files)[k].type, e.types))
                  => parsed_data.resources[e.category] = <<>>

\* C1 witness: a parsed model with a filled and an empty category.
C1_Witness ==
   /\ pc = "parsed"
   /\ provider = "aws"
   /\ parsed_data.resources["vpcs"] # <<>>
   /\ parsed_data.resources["subnets"] = <<>>

\* C2: after every step that leaves the directory parsed, the list of each
\* category is exactly the subsequence of the declared resources whose type
\* the table lists under that category, in declaration order; and parsing
\* an already parsed directory again reproduces the same model.
C2_OrderPreserving ==
   [][pc' = "parsed" =>
         LET declared == DeclaredIn(files')
             table == RESOURCE_MAP_get(provider')
         IN /\ DOMAIN parsed_data'.resources = {table[i].category : i \in 1..Len(table)}
            /\ \A i \in 1..Len(table) :
                  parsed_data'.resources[table[i].category] =
                     SelectSeq(declared, LAMBDA r : InSeq(r.type, table[i].types))
            /\ (pc = "parsed" => parsed_data' = parsed_data)]_vars

\* C2 witness: a category that holds several resources.
C2_Witness ==
   /\ pc = "parsed"
   /\ provider = "aws"
   /\ Len(parsed_data.resources["subnets"]) >= 2

\* The file raises inside the try block: it cannot be opened or parsed, or
\* one of its module blocks has a source that cannot be subscripted.
Raises(f) ==
   \/ ~f.ok
   \/ \E j \in 1..Len(f.module) :
         Index0Err(DictGet(f.module[j].details, "source", PList(<<PStr(Str_NA)>>))) # NoError

\* C3: a resource whose type is not in the provider's table is in no
\* category list, raises no warning (warnings come only from files that
\* raise while they are read), and every resource of a known type declared
\* after it is classified.
C3_UnknownDropped ==
   pc = "parsed" =>
      LET declared == DeclaredIn(files)
      IN /\ \A c \in DOMAIN parsed_data.resources :
               \A i \in 1..Len(parsed_data.resources[c]) :
                  KnownType(provider, parsed_data.resources[c][i].type)
         /\ warnings = Cardinality({i \in 1..Len(files) : Raises(files[i])})
         /\ \A k \in 1..Len(declared) :
               ~KnownType(provider, declared[k].type) =>
                  \A j \in (k + 1)..Len(declared) :
                     KnownType(provider, declared[j].type) =>
                        \E c \in DOMAIN parsed_data.resources :
                           InSeq(declared[j], parsed_data.resources[c])

\* C3 witness: a resource of an unknown type is declared before a resource
\* of a known type.
C3_Witness ==
   /\ pc = "parsed"
   /\ \E k \in 1..Len(DeclaredIn(files)) :
         /\ ~KnownType(provider, DeclaredIn(files)[k].type)
         /\ \E j \in (k + 1)..Len(DeclaredIn(files)) :
               KnownType(provider, DeclaredIn(files)[j].type)

(***************************************************************************)
(* Properties of the conceptual diagram                                    *)
(***************************************************************************)

Str_newdb == <<"n", "e", "w", "d", "b">>

\* What an edge shows: class and label of its two nodes.
EdgesShown(g) ==
   [i \in 1..Len(g.edges) |->
      [src |-> [cls |-> g.nodes[g.edges[i].src].cls, label |-> g.nodes[g.edges[i].src].label],
       dst |-> [cls |-> g.nodes[g.edges[i].dst].cls, label |-> g.nodes[g.edges[i].dst].label]]]

\* How often x occurs in seq.
Count(seq, x) ==
   Cardinality({i \in 1..Len(seq) : seq[i] = x})

Range(seq) ==
   {seq[i] : i \in 1..Len(seq)}

\* The model with resource r added to category c after the first k
\* resources of that category.
WithResource(data, c, k, r) ==
   [resources |-> [data.resources EXCEPT ![c] = SubSeq(@, 1, k) \o <<r>> \o SubSeq(@, k + 1, Len(@))]]

\* The categories drawn in the "Compute" cluster, with their node classes,
\* in the order the code concatenates them into compute_nodes.
ComputeDrawn(p) ==
   IF p = "aws"
   THEN <<[category |-> "instances", cls |-> "EC2"], [category |-> "eks", cls |-> "EKS"]>>
   ELSE <<[category |-> "instances", cls |-> "GCE"], [category |-> "gke", cls |-> "GKE"],
          [category |-> "functions", cls |-> "GCF"]>>

\* The categories drawn in the "Database" cluster, with their node classes
\* and a declared type of each.
DatabaseDrawn(p) ==
   IF p = "aws"
   THEN {[category |-> "rds", cls |-> "RDS", type |-> "aws_db_instance"],
         [category |-> "dynamodb", cls |-> "Dynamodb", type |-> "aws_dynamodb_table"],
         [category |-> "elasticache", cls |-> "ElastiCache", type |-> "aws_elasticache_cluster"]}
   ELSE {[category |-> "sql", cls |-> "SQL", type |-> "google_sql_database_instance"],
         [category |-> "firestore", cls |-> "Datastore", type |-> "google_firestore_database"],
         [category |-> "memorystore", cls |-> "Memorystore", type |-> "google_redis_instance"]}

\* Class and label of the first node of compute_nodes, given there is one.
FirstComputeShown(p, resources) ==
   LET filled == SelectSeq(ComputeDrawn(p), LAMBDA d : CategoryGet(resources, d.category) # <<>>)
   IN [cls |-> filled[1].cls,
       label |-> Label("", CategoryGet(resources, filled[1].category)[1].name)]

HasCompute(p, resources) ==
   \E i \in 1..Len(ComputeDrawn(p)) : CategoryGet(resources, ComputeDrawn(p)[i].category) # <<>>

\* The edges shown after a database resource "newdb" of category d is added
\* after the first k resources of that category.
EdgesWithDatabase(d, k) ==
   EdgesShown(ConceptualBody(
      WithResource(parsed_data, d.category, k, Res(d.type, Str_newdb, <<>>)), provider))

\* C6 as stated: with a compute node drawn, adding one database resource
\* adds exactly one edge, from the first compute node to the new database
\* node, and every other edge is shown as often as before.
C6_OneNewEdge ==
   (conceptual.done /\ provider \in {"aws", "google"}
      /\ HasCompute(provider, parsed_data.resources)) =>
      \A d \in DatabaseDrawn(provider) :
         \A k \in 0..Len(CategoryGet(parsed_data.resources, d.category)) :
            LET old == EdgesShown(conceptual.body)
                new == EdgesWithDatabase(d, k)
                added == [src |-> FirstComputeShown(provider, parsed_data.resources),
                          dst |-> [cls |-> d.cls, label |-> Label("", Str_newdb)]]
            IN \A e \in Range(old) \cup Range(new) \cup {added} :
                  Count(new, e) = Count(old, e) + (IF e = added THEN 1 ELSE 0)

\* C6 amended: when the diagram is composed without failure and a compute
\* node is drawn, adding one resource of a category drawn in the Database
\* cluster adds one edge from the first compute node to the new node and,
\* in the aws diagram with a Lambda function declared, one edge from the
\* first Lambda node to the new node; every other edge is shown as often as
\* before.
C6_OneNewEdgePerSource ==
   (conceptual.done /\ conceptual.error = NoError /\ provider \in {"aws", "google"}
      /\ HasCompute(provider, parsed_data.resources)) =>
      \A d \in DatabaseDrawn(provider) :
         \A k \in 0..Len(CategoryGet(parsed_data.resources, d.category)) :
            LET old == EdgesShown(conceptual.body)
                new == EdgesWithDatabase(d, k)
                newdb == [cls |-> d.cls, label |-> Label("", Str_newdb)]
                lambdas == IF provider = "aws" THEN CategoryGet(parsed_data.resources, "lambda")
                           ELSE <<>>
                added == {[src |-> FirstComputeShown(provider, parsed_data.resources),
                           dst |-> newdb]}
                         \cup {[src |-> [cls |-> "Lambda", label |-> Label("", lambdas[i].name)],
                                dst |-> newdb] : i \in {1} \cap DOMAIN lambdas}
            IN \A e \in Range(old) \cup Range(new) \cup added :
                  Count(new, e) = Count(old, e) + (IF e \in added THEN 1 ELSE 0)

\* C6 witness: a composed aws diagram with edges, a compute node and a
\* Lambda function.
C6_Witness ==
   /\ conceptual.done
   /\ conceptual.error = NoError
   /\ provider = "aws"
   /\ Len(parsed_data.resources["instances"]) >= 1
   /\ parsed_data.resources["lambda"] # <<>>
   /\ conceptual.body.edges # <<>>

(***************************************************************************)
(* Properties of the networking diagram                                    *)
(***************************************************************************)

\* The clusters opened at the top level of a diagram, in creation order:
\* in a networking diagram the k-th is the cluster of the k-th network.
TopClusters(g) ==
   SelectSeq([c \in 1..Len(g.clusters) |-> c], LAMBDA c : g.clusters[c].parent = 0)

\* The top-level cluster that encloses cluster c.
RECURSIVE RootOf(_, _)
RootOf(g, c) ==
   IF g.clusters[c].parent = 0 THEN c ELSE RootOf(g, g.clusters[c].parent)

\* The clusters drawn for a subnet of the given name.
SubnetClustersOf(g, name) ==
   {c \in 1..Len(g.clusters) : g.clusters[c].label = Label("Subnet: ", name)}

\* The cluster of the given tier inside network cluster vc.
TierCluster(g, vc, text) ==
   CHOOSE c \in 1..Len(g.clusters) :
      g.clusters[c].parent = vc /\ g.clusters[c].label = Label(text, <<>>)

\* The category that holds the networks of the provider.
NetworkCategory(p) ==
   IF p = "aws" THEN "vpcs" ELSE "networks"

\* The networks, by position, whose name matches the network reference of
\* subnet s under the matching rule of the provider.
MatchingNetworks(p, nets, s) ==
   {k \in 1..Len(nets) :
       IF p = "aws" THEN NameInRef(nets[k].name, s, "vpc_id")
       ELSE RefEndsWith(s, "network", nets[k].name)}

\* A networking diagram was composed for provider p without a failure.
NetworkingComposed(p) ==
   networking.done /\ networking.error = NoError /\ provider = p

\* C4: a subnet whose network reference is matched by several networks is
\* drawn inside one network cluster only, that of the first matching
\* network in category order.
C4_FirstMatchingNetwork ==
   (NetworkingComposed("aws") \/ NetworkingComposed("google")) =>
      LET g == networking.body
          nets == CategoryGet(parsed_data.resources, NetworkCategory(provider))
          subnets == CategoryGet(parsed_data.resources, "subnets")
      IN \A i \in 1..Len(subnets) :
            LET cs == SubnetClustersOf(g, subnets[i].name)
                ms == MatchingNetworks(provider, nets, subnets[i])
            IN /\ Cardinality(cs) <= 1
               /\ \A c \in cs :
                     /\ ms # {}
                     /\ RootOf(g, c) = TopClusters(g)[CHOOSE k \in ms : \A j \in ms : k <= j]

ClustersLabelled(g, text) ==
   {c \in 1..Len(g.clusters) : g.clusters[c].label.text = text}

\* The nodes created inside cluster c.
NodesIn(g, c) ==
   {n \in 1..Len(g.nodes) : g.nodes[n].cluster = c}

\* The classified model is that of the end-to-end scenario: network
\* "app-vpc", subnet "app-vpc-public-1" referring to it, one instance
\* referring to the subnet, one internet gateway.
EndToEndModel ==
   /\ provider = "aws"
   /\ CategoryGet(parsed_data.resources, "vpcs") = <<AwsEndToEnd[1]>>
   /\ CategoryGet(parsed_data.resources, "subnets") = <<AwsEndToEnd[2]>>
   /\ CategoryGet(parsed_data.resources, "instances") = <<AwsEndToEnd[3]>>
   /\ CategoryGet(parsed_data.resources, "internet_gateways") = <<AwsEndToEnd[4]>>

\* One network cluster, and one subnet cluster, in the public tier of the
\* network, that holds the one compute node.
EndToEndPublicPart(g) ==
   /\ Len(TopClusters(g)) = 1
   /\ g.clusters[TopClusters(g)[1]].label = Label("VPC: ", Str_app_vpc)
   /\ \E c \in ClustersLabelled(g, "Subnet: ") :
         /\ ClustersLabelled(g, "Subnet: ") = {c}
         /\ g.clusters[c].label.name = Str_app_vpc_public_1
         /\ g.clusters[c].parent \in ClustersLabelled(g, "Public Subnets")
         /\ g.clusters[g.clusters[c].parent].parent = TopClusters(g)[1]
         /\ \E n \in NodesIn(g, c) :
               /\ {m \in 1..Len(g.nodes) : g.nodes[m].cls = "EC2"} = {n}
               /\ NodesIn(g, c) = {n}
               /\ g.nodes[n].label = Label("", Str_vm1)

\* C7 as stated: for the end-to-end scenario the networking diagram has one
\* network cluster, one public-tier subnet cluster holding the compute node,
\* and no private-tier cluster.
C7_EndToEnd_NoPrivateTier ==
   (networking.done /\ EndToEndModel) =>
      /\ networking.error = NoError
      /\ EndToEndPublicPart(networking.body)
      /\ ClustersLabelled(networking.body, "Private Subnets") = {}

\* C7 amended: for the end-to-end scenario the networking diagram has one
\* network cluster, one public-tier subnet cluster holding the compute node,
\* and a "Private Subnets" tier cluster that is empty: no subnet cluster
\* and no node is inside it.
C7_EndToEnd_EmptyPrivateTier ==
   (networking.done /\ EndToEndModel) =>
      LET g == networking.body
      IN /\ networking.error = NoError
         /\ EndToEndPublicPart(g)
         /\ \E t \in ClustersLabelled(g, "Private Subnets") :
               /\ ClustersLabelled(g, "Private Subnets") = {t}
               /\ g.clusters[t].parent = TopClusters(g)[1]
               /\ NodesIn(g, t) = {}
               /\ \A c \in 1..Len(g.clusters) : g.clusters[c].parent # t

\* C7 witness: the networking diagram of the end-to-end scenario is built.
C7_Witness ==
   networking.done /\ EndToEndModel

\* A diagram of one node at the top level, no cluster and no edge.
SingleNode(cls, text) ==
   [clusters |-> <<>>,
    nodes |-> <<[cls |-> cls, label |-> [text |-> text, name |-> <<>>], cluster |-> 0]>>,
    edges |-> <<>>]

\* C8: with no network declared (aws "vpcs", google "networks" empty) the
\* networking diagram is the "no network found" node alone and no exception
\* was raised, whatever the other categories hold.
C8_NoNetworkPlaceholder ==
   (networking.done /\ provider \in {"aws", "google"}
      /\ CategoryGet(parsed_data.resources, NetworkCategory(provider)) = <<>>) =>
      /\ networking.error = NoError
      /\ networking.body = SingleNode("VPC", IF provider = "aws" THEN "No VPC found."
                                             ELSE "No VPC/Network found.")

\* C8 witness: no VPC is declared, and a subnet is whose reference list is
\* empty.
C8_Witness ==
   /\ networking.done
   /\ provider = "aws"
   /\ parsed_data.resources["vpcs"] = <<>>
   /\ \E i \in 1..Len(parsed_data.resources["subnets"]) :
         Index0Err(ConfigGet(parsed_data.resources["subnets"][i], "vpc_id")) # NoError

\* C9: when the composition of a diagram raised, the call still returned
\* "<output_filename>.png" and the diagram is one Blank node labelled
\* "Error: " and the text of the exception, with no cluster and no edge.
C9_FailurePlaceholder ==
   /\ (conceptual.done /\ conceptual.error # NoError) =>
         /\ conceptual.returned = "conceptual_diagram.png"
         /\ conceptual.body = SingleNode("Blank", "Error: " \o conceptual.error)
   /\ (networking.done /\ networking.error # NoError) =>
         /\ networking.returned = "networking_diagram.png"
         /\ networking.body = SingleNode("Blank", "Error: " \o networking.error)

\* C9 witness: the composition of the networking diagram raised after a
\* network cluster had been opened.
C9_Witness ==
   /\ networking.done
   /\ networking.error # NoError
   /\ CategoryGet(parsed_data.resources, NetworkCategory(provider)) # <<>>

\* The reference attribute key of r is missing or malformed: no such key,
\* an empty list, or a first element that is no str.
RefMalformed(r, key) ==
   \/ ~HasKey(r.config, key)
   \/ DictGet(r.config, key, PInt).t # "list"
   \/ DictGet(r.config, key, PInt).items = <<>>
   \/ DictGet(r.config, key, PInt).items[1].t # "str"

\* The categories with a topology reference and the key of the reference.
\* (The subnetwork of a google instance is nested in its network_interface
\* and is left out here.)
ReferenceFields(p) ==
   IF p = "aws"
   THEN {[category |-> "subnets", key |-> "vpc_id"], [category |-> "instances", key |-> "subnet_id"]}
   ELSE {[category |-> "subnets", key |-> "network"]}

\* The labels of the clusters and the class and label of the nodes of g.
ClustersShown(g) ==
   [c \in 1..Len(g.clusters) |-> g.clusters[c].label]

NodesShown(g) ==
   [n \in 1..Len(g.nodes) |-> [cls |-> g.nodes[n].cls, label |-> g.nodes[n].label]]

\* The model without the i-th resource of category c.
WithoutResource(data, c, i) ==
   [resources |-> [data.resources EXCEPT ![c] = SubSeq(@, 1, i - 1) \o SubSeq(@, i + 1, Len(@))]]

\* C10: a resource whose topology reference is missing or malformed raises
\* nothing, is drawn at the top level of the networking diagram, and leaves
\* the rest of the diagram as it is without that resource.
C10_MalformedIsUnparented ==
   (networking.done /\ provider \in {"aws", "google"}
      /\ CategoryGet(parsed_data.resources, NetworkCategory(provider)) # <<>>) =>
      \A f \in ReferenceFields(provider) :
         \A i \in 1..Len(CategoryGet(parsed_data.resources, f.category)) :
            LET r == parsed_data.resources[f.category][i]
                g == networking.body
                rest == NetworkingBody(WithoutResource(parsed_data, f.category, i), provider)
            IN RefMalformed(r, f.key) =>
                  /\ networking.error = NoError
                  /\ \/ \E c \in 1..Len(g.clusters) :
                           g.clusters[c].label.name = r.name /\ g.clusters[c].parent = 0
                     \/ \E n \in 1..Len(g.nodes) :
                           g.nodes[n].label.name = r.name /\ g.nodes[n].cluster = 0
                  /\ \A x \in Range(ClustersShown(rest)) :
                        Count(ClustersShown(rest), x) <= Count(ClustersShown(g), x)
                  /\ \A x \in Range(NodesShown(rest)) :
                        Count(NodesShown(rest), x) <= Count(NodesShown(g), x)
                  /\ EdgesShown(rest) = EdgesShown(g)

(***************************************************************************)
(* Properties of the route tables and edges of the aws networking diagram  *)
(***************************************************************************)

\* The least and the greatest number of a set of node numbers, 0 when the
\* set is empty.
First(S) ==
   IF S = {} THEN 0 ELSE CHOOSE n \in S : \A m \in S : n <= m

Last(S) ==
   IF S = {} THEN 0 ELSE CHOOSE n \in S : \A m \in S : m <= n

\* The nodes drawn anywhere inside the top-level cluster v.
NodesUnder(g, v) ==
   {n \in 1..Len(g.nodes) : g.nodes[n].cluster # 0 /\ RootOf(g, g.nodes[n].cluster) = v}

\* The route-table nodes drawn directly in network cluster v whose
\* lower-cased name contains the word.
RouteTableNodes(g, v, word) ==
   {n \in NodesIn(g, v) : g.nodes[n].cls = "RouteTable"
                          /\ Contains(word, Lower(g.nodes[n].label.name))}

\* The edges of network cluster v the claim lists: among the internet
\* gateway node, the public and the private route-table node of v and the
\* NAT gateway node of v, in the order igw -> public, private -> NAT,
\* NAT -> igw.
StructuralEdges(g, v) ==
   LET igw == First({n \in 1..Len(g.nodes) : g.nodes[n].cls = "InternetGateway"})
       pub == First(RouteTableNodes(g, v, Str_public))
       priv == Last(RouteTableNodes(g, v, Str_private))
       nat == Last({n \in NodesUnder(g, v) : g.nodes[n].cls = "NATGateway"})
   IN (IF igw # 0 /\ pub # 0 THEN <<[src |-> igw, dst |-> pub]>> ELSE <<>>)
      \o (IF priv # 0 /\ nat # 0 THEN <<[src |-> priv, dst |-> nat]>> ELSE <<>>)
      \o (IF nat # 0 /\ igw # 0 THEN <<[src |-> nat, dst |-> igw]>> ELSE <<>>)

\* The edges of g that touch a node inside network cluster v.
EdgesOf(g, v) ==
   SelectSeq(g.edges, LAMBDA e : e.src \in NodesUnder(g, v) \/ e.dst \in NodesUnder(g, v))

\* C17: in the aws networking diagram the edges of each network cluster are
\* exactly igw -> public route table, private route table -> NAT and
\* NAT -> igw, each drawn once when both its nodes exist and left out
\* otherwise, and no edge lies outside the network clusters.
C17_StructuralEdges ==
   (NetworkingComposed("aws") /\ parsed_data.resources["vpcs"] # <<>>) =>
      /\ \A v \in Range(TopClusters(networking.body)) :
            EdgesOf(networking.body, v) = StructuralEdges(networking.body, v)
      /\ \A i \in 1..Len(networking.body.edges) :
            \E v \in Range(TopClusters(networking.body)) :
               networking.body.edges[i].src \in NodesUnder(networking.body, v)
                  \/ networking.body.edges[i].dst \in NodesUnder(networking.body, v)

\* C17 witness: one network cluster has all three edges, another has a
\* public route table only and the single edge from the internet gateway.
C17_Witness ==
   /\ NetworkingComposed("aws")
   /\ \E v, w \in Range(TopClusters(networking.body)) :
         /\ Len(EdgesOf(networking.body, v)) = 3
         /\ Len(EdgesOf(networking.body, w)) = 1

\* The route tables, by position in the category, that refer to the k-th
\* VPC and whose lower-cased name contains the word.
RouteTablesOf(k, word) ==
   LET rts == CategoryGet(parsed_data.resources, "route_tables")
   IN {i \in 1..Len(rts) :
          /\ NameInRef(parsed_data.resources["vpcs"][k].name, rts[i], "vpc_id")
          /\ Contains(word, Lower(rts[i].name))}

\* The names of the route-table nodes drawn in cluster v, in creation order.
RouteTableNames(g, v) ==
   LET nodes == SelectSeq([n \in 1..Len(g.nodes) |-> n],
                          LAMBDA n : g.nodes[n].cls = "RouteTable" /\ g.nodes[n].cluster = v)
   IN [i \in 1..Len(nodes) |-> g.nodes[nodes[i]].label.name]

\* C18: the route-table nodes of each network cluster are the first route
\* table of the network, in category order, whose lower-cased name contains
\* "public", then the first whose name contains "private"; no other route
\* table is drawn, in a network cluster or outside.
C18_RouteTablePairing ==
   (NetworkingComposed("aws") /\ parsed_data.resources["vpcs"] # <<>>) =>
      LET g == networking.body
          rts == CategoryGet(parsed_data.resources, "route_tables")
          Name(i) == IF i = 0 THEN <<>> ELSE <<rts[i].name>>
      IN /\ \A k \in 1..Len(parsed_data.resources["vpcs"]) :
               RouteTableNames(g, TopClusters(g)[k])
                  = Name(First(RouteTablesOf(k, Str_public)))
                       \o Name(First(RouteTablesOf(k, Str_private)))
         /\ \A n \in 1..Len(g.nodes) :
               g.nodes[n].cls = "RouteTable" => g.nodes[n].cluster \in Range(TopClusters(g))
         /\ \A i \in 1..Len(g.edges) :
               Cardinality({j \in 1..Len(g.edges) : g.edges[j] = g.edges[i]}) = 1

\* C18 witness: one network has two public route tables, and another has
\* a public route table that is not the first public one of the category.
C18_Witness ==
   /\ NetworkingComposed("aws")
   /\ \E k, m \in 1..Len(parsed_data.resources["vpcs"]) :
         /\ Cardinality(RouteTablesOf(k, Str_public)) = 2
         /\ RouteTablesOf(m, Str_public) # {}
         /\ \E i \in RouteTablesOf(k, Str_public) :
               \A j \in RouteTablesOf(m, Str_public) : i < j

(***************************************************************************)
(* Properties of the containment in the networking diagram                 *)
(***************************************************************************)

\* The matching rule of the provider, on the characters as declared: the
\* name is a substring of the reference (aws), a suffix of it (google).
Matches(p, name, ref) ==
   IF p = "aws" THEN Contains(name, ref) ELSE EndsWith(ref, name)

\* The reference string of r under key: the first element of the list, the
\* empty string when the key is absent or the value is no list of a str.
RefText(r, key) ==
   LET v == DictGet(r.config, key, PList(<<>>))
   IN IF v.t = "list" /\ v.items # <<>> /\ v.items[1].t = "str" THEN v.items[1].s ELSE <<>>

\* The subnet reference string of a compute resource: subnet_id of an aws
\* instance, subnetwork of a GKE cluster, and for a google instance the
\* subnetwork of its first network_interface block.
SubnetRefText(cls, r) ==
   CASE cls = "EC2" -> RefText(r, "subnet_id")
     [] cls = "GKE" -> RefText(r, "subnetwork")
     [] OTHER ->
        LET ni == DictGet(r.config, "network_interface", PList(<<>>))
        IN IF ni.t = "list" /\ ni.items # <<>> /\ ni.items[1].t = "dict"
              /\ DictGet(ni.items[1].kv, "subnetwork", PInt).t = "str"
           THEN DictGet(ni.items[1].kv, "subnetwork", PInt).s
           ELSE <<>>

\* The network, by position in its category, of top-level cluster v.
NetworkOf(g, v) ==
   CHOOSE k \in 1..Len(TopClusters(g)) : TopClusters(g)[k] = v

\* C19: a subnet cluster lies in a network cluster only if the name of the
\* network, as declared, is a substring (aws) or suffix (google) of the
\* network reference of a subnet of that name, and a compute node lies in a
\* subnet cluster only if the name of the subnet is one of the subnet
\* reference of a compute resource of that name; letters match by case.
C19_ExactContainment ==
   \A p \in {"aws", "google"} :
      (NetworkingComposed(p) /\ CategoryGet(parsed_data.resources, NetworkCategory(p)) # <<>>) =>
         LET g == networking.body
             nets == parsed_data.resources[NetworkCategory(p)]
             subnets == CategoryGet(parsed_data.resources, "subnets")
             key == IF p = "aws" THEN "vpc_id" ELSE "network"
         IN /\ \A c \in ClustersLabelled(g, "Subnet: ") :
                  \E i \in 1..Len(subnets) :
                     /\ subnets[i].name = g.clusters[c].label.name
                     /\ Matches(p, nets[NetworkOf(g, RootOf(g, c))].name, RefText(subnets[i], key))
            /\ \A n \in 1..Len(g.nodes) :
                  g.nodes[n].cls \in {"EC2", "GCE", "GKE"} =>
                     LET list == CategoryGet(parsed_data.resources,
                                             IF g.nodes[n].cls = "GKE" THEN "gke" ELSE "instances")
                     IN /\ g.nodes[n].cluster \in ClustersLabelled(g, "Subnet: ")
                        /\ \E i \in 1..Len(list) :
                              /\ list[i].name = g.nodes[n].label.name
                              /\ Matches(p, g.clusters[g.nodes[n].cluster].label.name,
                                         SubnetRefText(g.nodes[n].cls, list[i]))

\* C19 witness: a subnet whose reference equals the name of a network up
\* to letter case has no cluster, while another subnet has one.
C19_Witness ==
   /\ NetworkingComposed("aws")
   /\ \E i \in 1..Len(parsed_data.resources["subnets"]) :
         LET s == parsed_data.resources["subnets"][i]
         IN /\ \E k \in 1..Len(parsed_data.resources["vpcs"]) :
                  /\ Lower(RefText(s, "vpc_id")) = Lower(parsed_data.resources["vpcs"][k].name)
                  /\ RefText(s, "vpc_id") # parsed_data.resources["vpcs"][k].name
            /\ SubnetClustersOf(networking.body, s.name) = {}
   /\ ClustersLabelled(networking.body, "Subnet: ") # {}

(***************************************************************************)
(* Properties of the edges of the conceptual diagram                       *)
(***************************************************************************)

\* The architectural concern of a node of the conceptual diagram, from its
\* class; the google functions are drawn and connected as compute.
ConcernOf(cls) ==
   CASE cls \in {"Route53", "DNS"} -> "dns"
     [] cls = "CloudFront" -> "cdn"
     [] cls \in {"ELB", "LoadBalancing"} -> "lb"
     [] cls \in {"EC2", "EKS", "GCE", "GKE", "GCF"} -> "compute"
     [] cls \in {"RDS", "Dynamodb", "ElastiCache", "SQL", "Datastore", "Memorystore"} -> "database"
     [] cls \in {"S3", "EFS", "GCS"} -> "storage"
     [] cls = "APIGateway" -> "gateway"
     [] cls = "Lambda" -> "function"
     [] cls = "ACM" -> "certificate"
     [] OTHER -> "other"

\* The rule chain: source concern, target concern.
RuleChain ==
   { <<"dns", "cdn">>, <<"dns", "lb">>, <<"cdn", "lb">>, <<"lb", "compute">>,
     <<"compute", "database">>, <<"compute", "storage">>, <<"gateway", "function">> }

\* The nodes of a concern in g.
NodesOf(g, concern) ==
   {n \in 1..Len(g.nodes) : ConcernOf(g.nodes[n].cls) = concern}

\* The concerns an edge joins.
PairOf(g, e) ==
   <<ConcernOf(g.nodes[e.src].cls), ConcernOf(g.nodes[e.dst].cls)>>

\* A conceptual diagram of aws or google was composed without exception.
ConceptualComposed ==
   /\ conceptual.done
   /\ conceptual.error = NoError
   /\ provider \in {"aws", "google"}

\* C15: each rule of the chain is drawn exactly when its own two concerns
\* both have a node, whatever the other concerns hold.
C15_RulesIndependent ==
   ConceptualComposed =>
      \A r \in RuleChain :
         (NodesOf(conceptual.body, r[1]) # {} /\ NodesOf(conceptual.body, r[2]) # {})
            <=> (\E i \in 1..Len(conceptual.body.edges) :
                    PairOf(conceptual.body, conceptual.body.edges[i]) = r)

\* C16 (as stated): every edge of the conceptual diagram joins a pair of
\* concerns of the rule chain.
C16_OnlyRuleChain ==
   ConceptualComposed =>
      \A i \in 1..Len(conceptual.body.edges) :
         PairOf(conceptual.body, conceptual.body.edges[i]) \in RuleChain

\* The pairs of concerns each provider's diagram joins.
EdgePairs(p) ==
   IF p = "aws"
   THEN RuleChain \cup { <<"cdn", "storage">>, <<"certificate", "cdn">>,
                         <<"certificate", "lb">>, <<"function", "database">> }
   ELSE { <<"dns", "lb">>, <<"lb", "compute">>, <<"compute", "database">>,
          <<"compute", "storage">> }

\* C16 (amended): every edge joins a pair of concerns of the provider's
\* list, which on aws has CDN -> Storage, Certificate -> CDN,
\* Certificate -> Load-Balancer and Function -> Database next to the rule
\* chain, and starts at the first node of its source concern.
C16_OnlyEdgePairs ==
   ConceptualComposed =>
      \A i \in 1..Len(conceptual.body.edges) :
         LET e == conceptual.body.edges[i]
         IN /\ PairOf(conceptual.body, e) \in EdgePairs(provider)
            /\ \A n \in NodesOf(conceptual.body, PairOf(conceptual.body, e)[1]) : e.src <= n

\* C16 witness: an aws diagram with a Function -> Database edge and a
\* Load-Balancer -> Compute edge.
C16_Witness ==
   /\ ConceptualComposed
   /\ provider = "aws"
   /\ \E i, j \in 1..Len(conceptual.body.edges) :
         /\ PairOf(conceptual.body, conceptual.body.edges[i]) = <<"function", "database">>
         /\ PairOf(conceptual.body, conceptual.body.edges[j]) = <<"lb", "compute">>

(***************************************************************************)
(* Properties of the providers without taxonomy or diagrams                *)
(***************************************************************************)

\* The names of the blocks of a list.
Names(blocks) ==
   [i \in 1..Len(blocks) |-> blocks[i].name]

\* The names of the variable blocks of the files that parse, in discovery
\* order.
RECURSIVE DeclaredVariables(_)
DeclaredVariables(fs) ==
   IF fs = <<>> THEN <<>>
   ELSE (IF Head(fs).ok THEN Names(Head(fs).variable) ELSE <<>>) \o DeclaredVariables(Tail(fs))

\* The names of the module blocks of the files that parse.
DeclaredModules(fs) ==
   UNION {Range(Names(fs[i].module)) : i \in {j \in 1..Len(fs) : fs[j].ok}}

Unsupported(p) ==
   RESOURCE_MAP_get(p) = <<>>

NotImplementedText(p) ==
   CASE p = "azurerm" -> "Diagrams for AZURERM not implemented."
     [] p = "ibm" -> "Diagrams for IBM not implemented."
     [] OTHER -> ""

\* C12: for a provider other than aws and google each of the two diagrams
\* is one Blank node labelled "Diagrams for <PROVIDER> not implemented.",
\* with no cluster and no edge, and no exception was raised, whatever the
\* parsed model holds.
C12_NotImplementedPlaceholder ==
   provider \notin {"aws", "google"} =>
      /\ conceptual.done =>
            /\ conceptual.error = NoError
            /\ conceptual.body = SingleNode("Blank", NotImplementedText(provider))
      /\ networking.done =>
            /\ networking.error = NoError
            /\ networking.body = SingleNode("Blank", NotImplementedText(provider))

\* C12 witness: both diagrams were built for azurerm on a model with a
\* virtual network and a virtual machine.
C12_Witness ==
   /\ provider = "azurerm"
   /\ conceptual.done
   /\ networking.done
   /\ parsed_data.resources["vnets"] # <<>>
   /\ parsed_data.resources["vms"] # <<>>

(***************************************************************************)
(* Properties of a run of main()                                           *)
(***************************************************************************)

\* C13: every run of main() on a directory reaches the generation of the
\* report (DocxGenerator.create_sdd), whatever the directory holds.
C13_EventuallyReport ==
   <>(report.done)

(***************************************************************************)
(* Properties of the report                                                *)
(***************************************************************************)

\* len(resources.get(c, [])) on the parsed model
N(c) ==
   Len(CategoryGet(parsed_data.resources, c))

\* The count of each of the seven concerns: the sum of the lengths of its
\* category lists.
ConcernCounts ==
   [vpcs |-> N("vpcs") + N("vnets") + N("networks"),
    instances |-> N("instances") + N("vms"),
    databases |-> N("rds") + N("sql_db") + N("sql") + N("dynamodb") + N("cosmosdb"),
    containers |-> N("eks") + N("ecs") + N("aks") + N("gke"),
    functions |-> N("lambda") + N("functions"),
    storage |-> N("s3") + N("storage_accounts") + N("storage_buckets"),
    load_balancers |-> N("alb") + N("nlb") + N("app_gateway") + N("load_balancer")
                          + N("load_balancing")]

\* C14 (as stated): the summary gives a count for each of the seven
\* concerns, the sum of the lengths of the concern's category lists.
C14_SummaryOfAllConcerns ==
   report.done => report.summary_points = ConcernCounts

\* C14 (amended): the summary gives, for each concern whose sum is positive,
\* that sum, and has no entry for a concern whose sum is zero.
C14_SummaryOfPositiveConcerns ==
   report.done =>
      /\ DOMAIN report.summary_points = {k \in DOMAIN ConcernCounts : ConcernCounts[k] > 0}
      /\ \A k \in DOMAIN report.summary_points : report.summary_points[k] = ConcernCounts[k]

\* C14 witness: a report on an aws model whose database count sums two
\* categories and whose network count is zero.
C14_Witness ==
   /\ report.done
   /\ provider = "aws"
   /\ parsed_data.resources["rds"] # <<>>
   /\ parsed_data.resources["dynamodb"] # <<>>
   /\ "databases" \in DOMAIN report.summary_points
   /\ "vpcs" \notin DOMAIN report.summary_points

(***************************************************************************)
(* Properties of the handoff of the parsed model                           *)
(***************************************************************************)

\* C20: a call of create_conceptual_diagram, of create_networking_diagram
\* or of the report generator leaves the parsed model (resources by
\* category, variables, modules) as it was, so that what each of them has
\* produced is what it produces from the model as it is now, in whatever
\* order they were called.
C20_ModelUnchanged ==
   /\ [][(CreateConceptualDiagram \/ CreateNetworkingDiagram \/ CreateSdd)
            => parsed_data' = parsed_data]_vars
   /\ [](/\ conceptual.done => conceptual.body = ConceptualBody(parsed_data, provider)
         /\ networking.done => networking.body = NetworkingBody(parsed_data, provider)
         /\ report.done => report.summary_points = SummaryPoints(parsed_data))

\* C20 witness: the three consumers have run on a model with resources and
\* two of them on their failure path.
C20_Witness ==
   /\ conceptual.done
   /\ networking.done
   /\ report.done
   /\ (networking.error # NoError \/ conceptual.error # NoError)
   /\ parsed_data.resources["instances"] # <<>>

(***************************************************************************)
(* Properties of the taxonomy table                                        *)
(***************************************************************************)

\* The categories of provider p whose type list contains the declared type t.
CategoriesListing(p, t) ==
   {RESOURCE_MAP_get(p)[i].category :
       i \in {j \in 1..Len(RESOURCE_MAP_get(p)) : InSeq(t, RESOURCE_MAP_get(p)[j].types)}}

\* C21: in the table the parse of the provider starts from, every declared
\* type is listed under one category only, so the reverse lookup gives that
\* category whichever entry of the table is written last, and once the
\* directory is parsed every resource of a category list has a type of
\* which that category is the only one listing it.
C21_OneCategoryPerType ==
   /\ pc = "start" =>
      \A i \in 1..Len(RESOURCE_MAP_get(provider)) :
         \A k \in 1..Len(RESOURCE_MAP_get(provider)[i].types) :
            LET t == RESOURCE_MAP_get(provider)[i].types[k]
            IN /\ CategoriesListing(provider, t) = {RESOURCE_MAP_get(provider)[i].category}
               /\ ReverseLookup(provider, t) = RESOURCE_MAP_get(provider)[i].category
   /\ pc = "parsed" =>
         \A c \in DOMAIN parsed_data.resources :
            \A k \in 1..Len(parsed_data.resources[c]) :
               CategoriesListing(provider, parsed_data.resources[c][k].type) = {c}

\* C21 witness: the parsed model files a resource under a category that
\* lists several types, resources under another category too, and a
\* declared resource of a type the table does not list under none.
C21_Witness ==
   /\ pc = "parsed"
   /\ \E i \in 1..Len(RESOURCE_MAP_get(provider)) :
         /\ Len(RESOURCE_MAP_get(provider)[i].types) > 1
         /\ parsed_data.resources[RESOURCE_MAP_get(provider)[i].category] # <<>>
   /\ Cardinality({c \in DOMAIN parsed_data.resources : parsed_data.resources[c] # <<>>}) > 1
   /\ \E k \in 1..Len(DeclaredIn(files)) : ~KnownType(provider, DeclaredIn(files)[k].type)

(***************************************************************************)
(* Properties of the tiers of the aws networking diagram                   *)
(***************************************************************************)

\* C22: in the aws networking diagram no subnet name has a cluster in both
\* the "Public Subnets" and the "Private Subnets" cluster of a network, and
\* the public and the private route-table node of a network are drawn for
\* two different route tables.
C22_TiersExclusive ==
   (NetworkingComposed("aws") /\ parsed_data.resources["vpcs"] # <<>>) =>
      LET g == networking.body
      IN \A k \in 1..Len(parsed_data.resources["vpcs"]) :
            LET v == TopClusters(g)[k]
                pub == First(RouteTablesOf(k, Str_public))
                priv == First(RouteTablesOf(k, Str_private))
            IN /\ \A c, d \in ClustersLabelled(g, "Subnet: ") :
                     (/\ g.clusters[c].parent = TierCluster(g, v, "Public Subnets")
                      /\ g.clusters[d].parent = TierCluster(g, v, "Private Subnets"))
                        => g.clusters[c].label.name # g.clusters[d].label.name
               /\ Len(RouteTableNames(g, v)) = Cardinality({pub, priv} \ {0})

(***************************************************************************)
(* Properties of the compute nodes of the networking diagram               *)
(***************************************************************************)

\* The compute nodes of g of the given class and name.
ComputeNodes(g, cls, name) ==
   {n \in 1..Len(g.nodes) : g.nodes[n].cls = cls /\ g.nodes[n].label.name = name}

\* C23: in the aws and the google networking diagram every declared compute
\* resource (instance, GKE cluster) is drawn as one node at most: the nodes
\* of a compute name are no more than the resources declared with it.
C23_OneNodePerCompute ==
   \A p \in {"aws", "google"} :
      NetworkingComposed(p) =>
         LET g == networking.body
             Drawn(cls, category) ==
                LET list == CategoryGet(parsed_data.resources, category)
                IN \A i \in 1..Len(list) :
                      Cardinality(ComputeNodes(g, cls, list[i].name))
                         <= Cardinality({j \in 1..Len(list) : list[j].name = list[i].name})
         IN /\ Drawn(IF p = "aws" THEN "EC2" ELSE "GCE", "instances")
            /\ p = "google" => Drawn("GKE", "gke")

(***************************************************************************)
(* Properties of the failure of one file                                   *)
(***************************************************************************)

\* The files of the directory that are read and extracted without raising.
FilesThatDoNotRaise(fs) ==
   SelectSeq(fs, LAMBDA f : ~Raises(f))

\* C24: a file that raises while it is read, parsed or extracted gives the
\* parsed model none of its records and every other file all of its
\* records: the model is the one of the directory without the files that
\* raise, and each of those raised one warning.
C24_FileAllOrNothing ==
   pc = "parsed" =>
      LET others == ParseResult(FilesThatDoNotRaise(files), provider)
      IN /\ parsed_data.resources = others.resources
         /\ parsed_data.variables = others.variables
         /\ parsed_data.modules = others.modules
         /\ warnings = Len(files) - Len(FilesThatDoNotRaise(files))

====
